---- MODULE Spec2Model ----
(***************************************************************************)
(* The outbound-request governor of MeetingAgent                           *)
(* (src/src/meeting_agent/rate_limiter.py): RetryConfig, RequestQueue      *)
(* under its lock, and RateLimiter with execute_with_retry_sync,           *)
(* execute_with_retry and process_queued_requests, run by concurrent       *)
(* callers against a discrete clock (one tick = 1 s).                      *)
(***************************************************************************)
EXTENDS Integers, Sequences, FiniteSets, TLC

\* ---------------------------------------------------------------- bounds
MaxTime == 4            \* the clock runs from 0 to MaxTime
MaxRetriesBound == 2    \* policies of the run have max_retries in 0..MaxRetriesBound
QueueMaxSize == 2       \* RequestQueue.max_size of the modelled governor
MaxPops == 3            \* the pops of one sweep are counted up to MaxPops
MaxFnAttempt == 3       \* attempts the delay function is evaluated at
MaxAdds == 3            \* add_request calls the direct clients of the queues make

\* ------------------------------------------------------- program constants
HistoryWindow == 60     \* seconds of request history kept

Providers == {"openai", "anthropic"}
Callers == {"c1", "c2"}
Tasks == Callers \cup {"c3"}   \* the tasks of an event loop: one more
Threads == {"t1", "t2"}
NoneInt == 0 - 1       \* None in an Optional[int] / Optional[float] field

\* ------------------------------------------------------------ error model
\* An error message is modelled by the set of rule groups whose substrings
\* it contains; the empty set is a message that matches no rule.
RateLimitTerms == "rate_limit_terms"
QuotaTerms == "quota_terms"
ServerTerms == "server_terms"
ConnectionTerms == "connection_terms"
ClientTerms == "client_terms"

Messages ==
    { {RateLimitTerms}, {QuotaTerms}, {ServerTerms}, {ConnectionTerms},
      {ClientTerms}, {}, {QuotaTerms, ClientTerms} }

\* the messages whose first matching rule group is a retryable one, and those
\* whose first matching rule group is the quota group
RetryableMessages == Messages \ { {ClientTerms} }
QuotaMessages == { {QuotaTerms}, {QuotaTerms, ClientTerms} }

\* ------------------------------------------------------------ RetryConfig
RetryConfig(mr, bd, md, eb, j, jm, rld, qed) ==
    [max_retries |-> mr, base_delay |-> bd, max_delay |-> md,
     exponential_base |-> eb, jitter |-> j, jitter_max_pct |-> jm,
     rate_limit_delay |-> rld, quota_exceeded_delay |-> qed]

\* RetryConfig(): the dataclass defaults (jitter_max 0.1 = 10 percent)
DefaultRetryConfig == RetryConfig(5, 1, 60, 2, TRUE, 10, 60, 3600)

\* policies of the concurrent runs: the shape of the default (rate_limit_delay
\* = max_delay < quota_exceeded_delay) at a scale the clock can follow
RunPolicies ==
    { RetryConfig(mr, 1, 2, 2, j, 50, 2, 3) :
        mr \in 0..MaxRetriesBound, j \in BOOLEAN }

\* policies the delay function is evaluated under
FnPolicies ==
    { [DefaultRetryConfig EXCEPT !.jitter = j] : j \in BOOLEAN }
    \cup { RetryConfig(2, bd, md, eb, j, 50, rld, 4) :
             bd \in {1, 2}, md \in {4, 8}, eb \in {2, 3}, j \in BOOLEAN,
             rld \in {3, 4} }

VARIABLES
    now,              \* time.time()
    retry_config,     \* RateLimiter.retry_config
    backoff_until,    \* RateLimiter.backoff_until
    request_queues,   \* RateLimiter.request_queues (the deque of each)
    rate_limits,      \* RateLimiter.rate_limits
    request_history,  \* RateLimiter.request_history
    env,              \* what request_func can do in the run: the messages it
                      \* raises and the headers its responses carry
    pc,               \* position of each execute_with_retry_sync call
    cprov,            \* its provider argument
    attempt,          \* its loop variable
    error,            \* the exception its invocation raised
    last_error,       \* its local last_error
    response,         \* the response its invocation returned
    wake_at,          \* end of the sleep it is in
    cutoff,           \* its local cutoff of the history clean-up
    invocations,      \* log: number of times the call invoked request_func
    successes,        \* log: how many of them returned
    retryable_failures, \* log: how many of them raised a retryable message
    quota_failures,   \* log: how many of them raised a quota message
    last_outcome,     \* log: what the last of them did
    result,           \* what the call returned
    raised,           \* what the call raised
    bo_at_call,       \* log: backoff_until[provider] when the call was issued
    q_at_call,        \* log: the provider's queue when the call was issued
    enq_attempts,     \* log: number of _queue_request calls of the call
    adm_waits,        \* log: number of sleeps of the call in _wait_for_backoff
    retry_waits,      \* log: number of sleeps of the call between attempts
    dpc,              \* position of the process_queued_requests call
    dprov,            \* its provider argument
    max_requests,     \* its max_requests argument
    processed,        \* its local processed
    request_data,     \* the item it popped
    derror,           \* the exception the last item it invoked raised
    dpopped,          \* log: number of items it popped
    dreturned,        \* log: the items whose call returned, in that order
    fn_in,            \* arguments of the last _calculate_backoff_delay call
    fn_out,           \* value it returned
    sr_in,            \* arguments of the last _should_retry call
    sr_out,           \* tuple it returned
    qlock,            \* RequestQueue._lock of each provider's queue: its holder
    tpc,              \* position of each direct client of a queue
    tprov,            \* the provider whose queue it operates on
    titem,            \* the request_data argument of its add_request
    tret,             \* what its last operation returned
    added,            \* number of add_request calls made by the clients
    accepted,         \* log: the items the clients' add_request accepted
    gone,             \* log: the items the clients' operations took out
    status,           \* what the last get_rate_limit_status call returned
    rate_limiter,     \* the module global _rate_limiter: the instance it names
    configured        \* the instance configure_rate_limiter constructed

govVars == <<backoff_until, request_queues, rate_limits, request_history>>
callVars == <<pc, cprov, attempt, error, last_error, response, wake_at>>
logVars == <<invocations, successes, retryable_failures, quota_failures,
            last_outcome, result, raised, bo_at_call, q_at_call, enq_attempts,
            adm_waits, retry_waits>>
drainVars == <<dpc, dprov, max_requests, processed, request_data, derror,
              dpopped, dreturned>>
fnVars == <<fn_in, fn_out, sr_in, sr_out>>
queueVars == <<qlock, tpc, tprov, titem, tret, added, accepted, gone>>
monVars == <<status, rate_limiter, configured>>
vars == <<now, retry_config, env, govVars, callVars, logVars, drainVars,
          fnVars, queueVars, cutoff, monVars>>

\* ----------------------------------------------------------- pure helpers
Min(a, b) == IF a < b THEN a ELSE b

RECURSIVE Pow(_, _)
Pow(b, n) == IF n = 0 THEN 1 ELSE b * Pow(b, n - 1)

\* _add_jitter that spreads the delay to both sides:
\* random.uniform(-jitter_max * delay, jitter_max * delay)
add_jitter_both_sides(cfg, delay) ==
    IF ~cfg.jitter
    THEN {delay}
    ELSE {delay + j : j \in (0 - ((cfg.jitter_max_pct * delay) \div 100))
                              ..((cfg.jitter_max_pct * delay) \div 100)}

\* RateLimiter._add_jitter: the values random.uniform can add are the whole
\* seconds of [0, jitter_max * delay]
add_jitter(cfg, delay) ==
    IF ~cfg.jitter
    THEN {delay}
    ELSE {delay + j : j \in 0..((cfg.jitter_max_pct * delay) \div 100)}

\* _calculate_backoff_delay whose exponent is the number of the attempt
\* counted from 1
calculate_backoff_delay_from_one(cfg, a, error_type) ==
    LET base_delay ==
            IF error_type = "rate_limit" THEN cfg.rate_limit_delay
            ELSE IF error_type = "quota_exceeded" THEN cfg.quota_exceeded_delay
            ELSE cfg.base_delay
        delay == Min(base_delay * Pow(cfg.exponential_base, a + 1), cfg.max_delay)
    IN add_jitter(cfg, delay)

\* RateLimiter._calculate_backoff_delay: the set of values it can return
calculate_backoff_delay(cfg, a, error_type) ==
    LET base_delay ==
            IF error_type = "rate_limit" THEN cfg.rate_limit_delay
            ELSE IF error_type = "quota_exceeded" THEN cfg.quota_exceeded_delay
            ELSE cfg.base_delay
        delay == Min(base_delay * Pow(cfg.exponential_base, a), cfg.max_delay)
    IN add_jitter(cfg, delay)

\* _should_retry giving up one attempt early
should_retry_early(cfg, err, a) ==
    IF a + 1 >= cfg.max_retries THEN <<FALSE, "max_retries_exceeded">>
    ELSE IF RateLimitTerms \in err.msg THEN <<TRUE, "rate_limit">>
    ELSE IF QuotaTerms \in err.msg THEN <<TRUE, "quota_exceeded">>
    ELSE IF ServerTerms \in err.msg THEN <<TRUE, "server_error">>
    ELSE IF ConnectionTerms \in err.msg THEN <<TRUE, "connection_error">>
    ELSE IF ClientTerms \in err.msg THEN <<FALSE, "client_error">>
    ELSE <<TRUE, "generic">>

\* _should_retry without the client-error rule
should_retry_no_client_rule(cfg, err, a) ==
    IF a >= cfg.max_retries THEN <<FALSE, "max_retries_exceeded">>
    ELSE IF RateLimitTerms \in err.msg THEN <<TRUE, "rate_limit">>
    ELSE IF QuotaTerms \in err.msg THEN <<TRUE, "quota_exceeded">>
    ELSE IF ServerTerms \in err.msg THEN <<TRUE, "server_error">>
    ELSE IF ConnectionTerms \in err.msg THEN <<TRUE, "connection_error">>
    ELSE <<TRUE, "generic">>

\* _should_retry with the client-error rule checked before the others
should_retry_client_first(cfg, err, a) ==
    IF a >= cfg.max_retries THEN <<FALSE, "max_retries_exceeded">>
    ELSE IF ClientTerms \in err.msg THEN <<FALSE, "client_error">>
    ELSE IF RateLimitTerms \in err.msg THEN <<TRUE, "rate_limit">>
    ELSE IF QuotaTerms \in err.msg THEN <<TRUE, "quota_exceeded">>
    ELSE IF ServerTerms \in err.msg THEN <<TRUE, "server_error">>
    ELSE IF ConnectionTerms \in err.msg THEN <<TRUE, "connection_error">>
    ELSE <<TRUE, "generic">>

\* _should_retry with the attempt check after the substring rules: it is
\* reached only by a message that matches no rule
should_retry_rules_first(cfg, err, a) ==
    IF RateLimitTerms \in err.msg THEN <<TRUE, "rate_limit">>
    ELSE IF QuotaTerms \in err.msg THEN <<TRUE, "quota_exceeded">>
    ELSE IF ServerTerms \in err.msg THEN <<TRUE, "server_error">>
    ELSE IF ConnectionTerms \in err.msg THEN <<TRUE, "connection_error">>
    ELSE IF ClientTerms \in err.msg THEN <<FALSE, "client_error">>
    ELSE IF a >= cfg.max_retries THEN <<FALSE, "max_retries_exceeded">>
    ELSE <<TRUE, "generic">>

\* RateLimiter._should_retry: <<should_retry, error_type>>
should_retry(cfg, err, a) ==
    IF a >= cfg.max_retries THEN <<FALSE, "max_retries_exceeded">>
    ELSE IF RateLimitTerms \in err.msg THEN <<TRUE, "rate_limit">>
    ELSE IF QuotaTerms \in err.msg THEN <<TRUE, "quota_exceeded">>
    ELSE IF ServerTerms \in err.msg THEN <<TRUE, "server_error">>
    ELSE IF ConnectionTerms \in err.msg THEN <<TRUE, "connection_error">>
    ELSE IF ClientTerms \in err.msg THEN <<FALSE, "client_error">>
    ELSE <<TRUE, "generic">>

\* an exception: its message and which invocation raised it
Error(m, who, n) == [msg |-> m, by |-> who, n |-> n]
NoError == Error({}, "nobody", 0)      \* last_error = None

\* ------------------------------------------------- responses and headers
\* a header value is text: digits (of the number n) or something else
Digits(n) == [text |-> "digits", n |-> n]
Garbage == [text |-> "garbage", n |-> 0]

NoHeaders == [k \in {} |-> Garbage]
OpenAIHeaders ==
    [k \in {"x-ratelimit-limit-requests", "x-ratelimit-remaining-requests",
            "x-ratelimit-limit-tokens"} |->
        IF k = "x-ratelimit-limit-requests" THEN Digits(5)
        ELSE IF k = "x-ratelimit-remaining-requests" THEN Digits(4)
        ELSE Garbage]
AnthropicHeaders ==
    [k \in {"anthropic-ratelimit-requests-limit", "retry-after"} |->
        IF k = "retry-after" THEN Digits(2) ELSE Digits(5)]
HeaderSets == {NoHeaders, OpenAIHeaders, AnthropicHeaders}

Response(h, who, n) == [headers |-> h, by |-> who, n |-> n]
NoResponse == Response(NoHeaders, "nobody", 0)

\* what one invocation of request_func did
Outcome(ok, e, r) == [ok |-> ok, err |-> e, resp |-> r]

\* headers.get(key)
Get(headers, key) == IF key \in DOMAIN headers THEN headers[key] ELSE Garbage
Has(headers, key) == key \in DOMAIN headers

\* RateLimiter._safe_int and _safe_float
safe_int(headers, key) ==
    IF ~Has(headers, key) THEN NoneInt
    ELSE IF Get(headers, key).text = "digits" THEN Get(headers, key).n
    ELSE NoneInt

safe_float(headers, key) == safe_int(headers, key)

RateLimitInfo(lr, lt, rr, rt, rsr, rst, ra) ==
    [limit_requests |-> lr, limit_tokens |-> lt, remaining_requests |-> rr,
     remaining_tokens |-> rt, reset_requests |-> rsr, reset_tokens |-> rst,
     retry_after |-> ra]

EmptyRateLimitInfo ==
    RateLimitInfo(NoneInt, NoneInt, NoneInt, NoneInt, NoneInt, NoneInt, NoneInt)

parse_openai_rate_limit_headers(resp) ==
    RateLimitInfo(
        safe_int(resp.headers, "x-ratelimit-limit-requests"),
        safe_int(resp.headers, "x-ratelimit-limit-tokens"),
        safe_int(resp.headers, "x-ratelimit-remaining-requests"),
        safe_int(resp.headers, "x-ratelimit-remaining-tokens"),
        safe_float(resp.headers, "x-ratelimit-reset-requests"),
        safe_float(resp.headers, "x-ratelimit-reset-tokens"),
        NoneInt)

parse_anthropic_rate_limit_headers(resp) ==
    RateLimitInfo(
        safe_int(resp.headers, "anthropic-ratelimit-requests-limit"),
        safe_int(resp.headers, "anthropic-ratelimit-tokens-limit"),
        safe_int(resp.headers, "anthropic-ratelimit-requests-remaining"),
        safe_int(resp.headers, "anthropic-ratelimit-tokens-remaining"),
        safe_float(resp.headers, "anthropic-ratelimit-requests-reset"),
        safe_float(resp.headers, "anthropic-ratelimit-tokens-reset"),
        safe_float(resp.headers, "retry-after"))

\* an update that merges field by field: a field the response does not
\* report keeps the value of the record in place
update_rate_limit_info_merge(p, resp) ==
    LET fresh == IF p = "openai"
                 THEN parse_openai_rate_limit_headers(resp)
                 ELSE parse_anthropic_rate_limit_headers(resp)
    IN [f \in DOMAIN fresh |->
          IF fresh[f] = NoneInt THEN rate_limits[p][f] ELSE fresh[f]]

\* RateLimiter._update_rate_limit_info: the new rate_limits[provider]
update_rate_limit_info(p, resp) ==
    IF p = "openai"
    THEN parse_openai_rate_limit_headers(resp)
    ELSE parse_anthropic_rate_limit_headers(resp)

\* ----------------------------------------------------------- RequestQueue
\* a queued request: the call it holds (named by the caller that made it)
RequestData(f, p, t) == [func |-> f, provider |-> p, queued_at |-> t]
NoRequest == RequestData("nobody", "openai", 0)

\* RequestQueue.add_request: <<new deque, return value>>
add_request(q, item, t) ==
    IF Len(q) >= QueueMaxSize
    THEN <<q, FALSE>>
    ELSE <<Append(q, [item EXCEPT !.queued_at = t]), TRUE>>

\* get_next_request that pops the newest item: self.queue.pop()
get_next_request_lifo(q) ==
    IF Len(q) > 0
    THEN <<SubSeq(q, 1, Len(q) - 1), q[Len(q)]>>
    ELSE <<q, NoRequest>>

\* RequestQueue.get_next_request: <<new deque, return value>>
get_next_request(q) ==
    IF Len(q) > 0 THEN <<Tail(q), Head(q)>> ELSE <<q, NoRequest>>

\* what a queue operation hands back to its caller: the operation, the bool
\* of add_request, the item of get_next_request, the int of size
Return(op, ok, item, n) == [op |-> op, ok |-> ok, item |-> item, n |-> n]
NoReturn == Return("none", FALSE, NoRequest, 0)

\* the calls the direct clients put into a queue, in the order they are made
Funcs == <<"f1", "f2", "f3", "f4", "f5", "f6">>

\* _wait_for_backoff that never sleeps
wait_for_backoff_none(p) == 0

\* RateLimiter._wait_for_backoff: the time it sleeps (0: it does not sleep)
wait_for_backoff(p) ==
    IF backoff_until[p] > now THEN backoff_until[p] - now ELSE 0

\* the prune loop of an attempt: drop the leading entries older than t
RECURSIVE PruneHistory(_, _)
PruneHistory(h, t) ==
    IF Len(h) > 0 /\ Head(h) < t
    THEN PruneHistory(Tail(h), t)
    ELSE h

\* for attempt in range(max_retries + 1): is a still in the range
InRange(a) == a < retry_config.max_retries + 1

\* no get_rate_limit_status call was made / no instance was constructed
NoStatus == [provider |-> "none"]
NoLimiter == [retry_config |-> "none"]

\* ------------------------------------------------------------------- Init
\* RateLimiter.__init__, with no call issued yet
InitGovernor ==
    /\ now = 0
    /\ backoff_until = [p \in Providers |-> 0]
    /\ request_queues = [p \in Providers |-> << >>]
    /\ rate_limits = [p \in Providers |-> EmptyRateLimitInfo]
    /\ request_history = [p \in Providers |-> << >>]
    /\ pc = [c \in Tasks |-> "idle"]
    /\ cprov = [c \in Tasks |-> "openai"]
    /\ attempt = [c \in Tasks |-> 0]
    /\ error = [c \in Tasks |-> NoError]
    /\ last_error = [c \in Tasks |-> NoError]
    /\ response = [c \in Tasks |-> NoResponse]
    /\ wake_at = [c \in Tasks |-> 0]
    /\ cutoff = [c \in Tasks |-> 0]
    /\ invocations = [c \in Tasks |-> 0]
    /\ successes = [c \in Tasks |-> 0]
    /\ retryable_failures = [c \in Tasks |-> 0]
    /\ quota_failures = [c \in Tasks |-> 0]
    /\ last_outcome = [c \in Tasks |-> Outcome(FALSE, NoError, NoResponse)]
    /\ result = [c \in Tasks |-> NoResponse]
    /\ raised = [c \in Tasks |-> NoError]
    /\ bo_at_call = [c \in Tasks |-> 0]
    /\ q_at_call = [c \in Tasks |-> << >>]
    /\ enq_attempts = [c \in Tasks |-> 0]
    /\ adm_waits = [c \in Tasks |-> 0]
    /\ retry_waits = [c \in Tasks |-> 0]
    /\ dpc = "idle"
    /\ dprov = "openai"
    /\ max_requests = 0
    /\ processed = 0
    /\ request_data = NoRequest
    /\ derror = NoError
    /\ dpopped = 0
    /\ dreturned = << >>
    /\ fn_in = <<NoneInt, "none">>
    /\ fn_out = 0
    /\ sr_in = <<{}, NoneInt>>
    /\ sr_out = <<FALSE, "none">>
    /\ qlock = [p \in Providers |-> "free"]
    /\ tpc = [t \in Threads |-> "idle"]
    /\ tprov = [t \in Threads |-> "openai"]
    /\ titem = [t \in Threads |-> NoRequest]
    /\ tret = [t \in Threads |-> NoReturn]
    /\ added = 0
    /\ accepted = [p \in Providers |-> << >>]
    /\ gone = [p \in Providers |-> << >>]
    /\ status = NoStatus
    /\ rate_limiter = "initial"
    /\ configured = NoLimiter

\* a run of calls under every policy of the run, with every message and
\* every kind of response headers
Init ==
    /\ retry_config \in RunPolicies
    /\ env = [messages |-> Messages, headers |-> HeaderSets]
    /\ InitGovernor

\* a run of callers that each issue one call, under a policy with one retry
InitConc ==
    /\ retry_config \in {cfg \in RunPolicies : cfg.max_retries = 1 /\ ~cfg.jitter}
    /\ env = [messages |-> { {RateLimitTerms}, {QuotaTerms}, {ClientTerms}, {} },
              headers |-> {NoHeaders}]
    /\ InitGovernor

\* a run of one call and one sweep of the deferred queue
InitDrain ==
    /\ retry_config \in RunPolicies
    /\ env = [messages |-> { {QuotaTerms}, {ClientTerms}, {} },
              headers |-> {NoHeaders}]
    /\ InitGovernor

\* a run of callers that contend for one provider, under a policy with one
\* or two retries
InitFair ==
    /\ retry_config \in
          { RetryConfig(mr, 1, 2, 2, FALSE, 50, 2, 3) : mr \in {1, 2} }
    /\ env = [messages |-> { {RateLimitTerms}, {ClientTerms} },
              headers |-> {NoHeaders}]
    /\ InitGovernor

\* a run of callers whose responses carry every kind of headers, under a
\* policy with at most one retry
InitSnap ==
    /\ retry_config \in {cfg \in RunPolicies : cfg.max_retries <= 1 /\ ~cfg.jitter}
    /\ env = [messages |-> { {RateLimitTerms} }, headers |-> HeaderSets]
    /\ InitGovernor

\* a run of the direct clients of the queues: no call is invoked
InitQueue ==
    /\ retry_config \in {cfg \in RunPolicies : cfg.max_retries = 0 /\ ~cfg.jitter}
    /\ env = [messages |-> {}, headers |-> {}]
    /\ InitGovernor

\* a run of one client of the queues and one sweep: no delay is computed
InitSweep ==
    /\ retry_config \in {cfg \in RunPolicies : ~cfg.jitter}
    /\ env = [messages |-> { {QuotaTerms}, {ClientTerms}, {} },
              headers |-> {NoHeaders}]
    /\ InitGovernor

\* a run over more than a minute, under a policy with one retry
InitHistory ==
    /\ retry_config \in {cfg \in RunPolicies : cfg.max_retries = 1 /\ ~cfg.jitter}
    /\ env = [messages |-> { {RateLimitTerms} }, headers |-> {NoHeaders}]
    /\ InitGovernor

\* a run of one thread, under every policy without jitter
InitOneThread ==
    /\ retry_config \in {cfg \in RunPolicies : ~cfg.jitter}
    /\ env = [messages |-> { {RateLimitTerms}, {ClientTerms} },
              headers |-> {NoHeaders}]
    /\ InitGovernor

\* tasks that call the governor for one provider, under a policy with one
\* retry
InitTasks ==
    /\ retry_config \in {cfg \in RunPolicies : cfg.max_retries = 1 /\ ~cfg.jitter}
    /\ env = [messages |-> { {RateLimitTerms}, {ClientTerms} },
              headers |-> {NoHeaders}]
    /\ InitGovernor

\* a run of one call whose responses carry every kind of headers, and
\* whose failures are enqueued
InitStatus ==
    /\ retry_config \in {cfg \in RunPolicies : cfg.max_retries <= 1 /\ ~cfg.jitter}
    /\ env = [messages |-> { {QuotaTerms} }, headers |-> HeaderSets]
    /\ InitGovernor

\* a run of one call under a policy with one retry, while the monitor is
\* used
InitMonitor ==
    /\ retry_config \in {cfg \in RunPolicies : cfg.max_retries = 1 /\ ~cfg.jitter}
    /\ env = [messages |-> { {QuotaTerms} }, headers |-> {NoHeaders}]
    /\ InitGovernor

\* evaluations of the classifier, under every policy of the runs
InitClassify ==
    /\ retry_config \in RunPolicies
    /\ env = [messages |-> {}, headers |-> {}]
    /\ InitGovernor

\* evaluations of the delay function
InitFn ==
    /\ retry_config \in FnPolicies
    /\ env = [messages |-> {}, headers |-> {}]
    /\ InitGovernor

\* ------------------------------------------------- execute_with_retry_sync
\* the call is issued: _wait_for_backoff, then the loop is entered
Call(c, p) ==
    /\ pc[c] = "idle"
    /\ cprov' = [cprov EXCEPT ![c] = p]
    /\ bo_at_call' = [bo_at_call EXCEPT ![c] = backoff_until[p]]
    /\ q_at_call' = [q_at_call EXCEPT ![c] = request_queues[p]]
    /\ last_error' = [last_error EXCEPT ![c] = NoError]
    /\ attempt' = [attempt EXCEPT ![c] = 0]
    /\ LET wait_time == wait_for_backoff(p) IN
         IF wait_time > 0
         THEN /\ pc' = [pc EXCEPT ![c] = "admission_wait"]
              /\ wake_at' = [wake_at EXCEPT ![c] = now + wait_time]
              /\ adm_waits' = [adm_waits EXCEPT ![c] = @ + 1]
         ELSE /\ pc' = [pc EXCEPT ![c] = IF InRange(0) THEN "attempt" ELSE "raised"]
              /\ UNCHANGED <<wake_at, adm_waits>>
    /\ UNCHANGED <<now, retry_config, env, govVars, error, response,
                   invocations, successes, retryable_failures, quota_failures,
                   last_outcome, result, raised, enq_attempts, retry_waits,
                   drainVars, fnVars, cutoff, monVars, queueVars>>

\* _wait_for_backoff with a while in place of its if: a caller that wakes up
\* during a backoff sleeps again
AdmissionWake_rechecks(c) ==
    /\ pc[c] = "admission_wait"
    /\ now >= wake_at[c]
    /\ IF backoff_until[cprov[c]] > now
       THEN /\ wake_at' = [wake_at EXCEPT ![c] = backoff_until[cprov[c]]]
            /\ adm_waits' = [adm_waits EXCEPT ![c] = @ + 1]
            /\ UNCHANGED pc
       ELSE /\ pc' = [pc EXCEPT ![c] = "attempt"]
            /\ UNCHANGED <<wake_at, adm_waits>>
    /\ UNCHANGED <<now, retry_config, env, govVars, cprov, attempt, error,
                   last_error, response, invocations, successes,
                   retryable_failures, quota_failures, last_outcome, result,
                   raised, bo_at_call, q_at_call, enq_attempts, retry_waits,
                   drainVars, fnVars, cutoff, monVars, queueVars>>

\* time.sleep(wait_time) of _wait_for_backoff returns
AdmissionWake(c) ==
    /\ pc[c] = "admission_wait"
    /\ now >= wake_at[c]
    /\ pc' = [pc EXCEPT ![c] = IF InRange(0) THEN "attempt" ELSE "raised"]
    /\ UNCHANGED <<now, retry_config, env, govVars, cprov, attempt, error,
                   last_error, response, wake_at, logVars, drainVars, fnVars, cutoff, monVars, queueVars>>

\* the history bookkeeping at the head of the try block
RecordAttempt(c) ==
    request_history' =
        [request_history EXCEPT ![cprov[c]] =
            PruneHistory(Append(@, now), now - HistoryWindow)]

\* one attempt: the history is recorded and request_func returns a response
AttemptReturns(c) ==
    /\ pc[c] = "attempt"
    /\ RecordAttempt(c)
    /\ \E h \in env.headers :
         /\ response' = [response EXCEPT ![c] = Response(h, c, attempt[c])]
         /\ last_outcome' = [last_outcome EXCEPT ![c] =
                Outcome(TRUE, NoError, Response(h, c, attempt[c]))]
    /\ invocations' = [invocations EXCEPT ![c] = @ + 1]
    /\ successes' = [successes EXCEPT ![c] = @ + 1]
    /\ pc' = [pc EXCEPT ![c] = "succeeded"]
    /\ UNCHANGED <<now, retry_config, env, backoff_until, request_queues,
                   rate_limits, cprov, attempt, error, last_error, wake_at,
                   retryable_failures, quota_failures, result, raised,
                   bo_at_call, q_at_call, enq_attempts, adm_waits,
                   retry_waits, drainVars, fnVars, cutoff, monVars, queueVars>>

\* one attempt: the history is recorded and request_func raises
AttemptRaises(c) ==
    /\ pc[c] = "attempt"
    /\ RecordAttempt(c)
    /\ \E m \in env.messages :
         /\ error' = [error EXCEPT ![c] = Error(m, c, attempt[c])]
         /\ last_outcome' = [last_outcome EXCEPT ![c] =
                Outcome(FALSE, Error(m, c, attempt[c]), NoResponse)]
         /\ retryable_failures' = [retryable_failures EXCEPT ![c] =
                IF m \in RetryableMessages THEN @ + 1 ELSE @]
         /\ quota_failures' = [quota_failures EXCEPT ![c] =
                IF m \in QuotaMessages THEN @ + 1 ELSE @]
    /\ invocations' = [invocations EXCEPT ![c] = @ + 1]
    /\ pc' = [pc EXCEPT ![c] = "failed"]
    /\ UNCHANGED <<now, retry_config, env, backoff_until, request_queues,
                   rate_limits, cprov, attempt, last_error, response, wake_at,
                   successes, result, raised, bo_at_call, q_at_call,
                   enq_attempts, adm_waits,
                   retry_waits, drainVars, fnVars, cutoff, monVars, queueVars>>

\* the try block without its return: the loop goes on after a success
HandleSuccess_no_return(c) ==
    /\ pc[c] = "succeeded"
    /\ rate_limits' = [rate_limits EXCEPT ![cprov[c]] =
                          update_rate_limit_info(cprov[c], response[c])]
    /\ backoff_until' = [backoff_until EXCEPT ![cprov[c]] = 0]
    /\ attempt' = [attempt EXCEPT ![c] = @ + 1]
    /\ pc' = [pc EXCEPT ![c] =
           IF InRange(attempt[c] + 1) THEN "attempt" ELSE "raised"]
    /\ raised' = [raised EXCEPT ![c] =
           IF InRange(attempt[c] + 1) THEN @ ELSE last_error[c]]
    /\ UNCHANGED <<now, retry_config, env, request_queues, request_history,
                   cprov, error, last_error, response, wake_at, invocations,
                   successes, retryable_failures, quota_failures,
                   last_outcome, result, bo_at_call, q_at_call, enq_attempts, adm_waits,
                   retry_waits, drainVars, fnVars, cutoff, monVars, queueVars>>

\* the try block without the backoff reset
HandleSuccess_keeps_backoff(c) ==
    /\ pc[c] = "succeeded"
    /\ rate_limits' = [rate_limits EXCEPT ![cprov[c]] =
                          update_rate_limit_info(cprov[c], response[c])]
    /\ result' = [result EXCEPT ![c] = response[c]]
    /\ pc' = [pc EXCEPT ![c] = "returned"]
    /\ UNCHANGED <<now, retry_config, env, backoff_until, request_queues,
                   request_history, cprov, attempt, error, last_error,
                   response, wake_at, invocations, successes,
                   retryable_failures, quota_failures, last_outcome, raised,
                   bo_at_call, q_at_call, enq_attempts, adm_waits,
                   retry_waits, drainVars, fnVars, cutoff, monVars, queueVars>>

\* the try block with a reset of the backoff of every provider
HandleSuccess_resets_all(c) ==
    /\ pc[c] = "succeeded"
    /\ rate_limits' = [rate_limits EXCEPT ![cprov[c]] =
                          update_rate_limit_info(cprov[c], response[c])]
    /\ backoff_until' = [q \in Providers |-> 0]
    /\ result' = [result EXCEPT ![c] = response[c]]
    /\ pc' = [pc EXCEPT ![c] = "returned"]
    /\ UNCHANGED <<now, retry_config, env, request_queues, request_history,
                   cprov, attempt, error, last_error, response, wake_at,
                   invocations, successes, retryable_failures, quota_failures,
                   last_outcome, raised, bo_at_call, q_at_call, enq_attempts,
                   adm_waits, retry_waits, drainVars, fnVars, cutoff, monVars, queueVars>>

\* a success that takes the copies of the call out of the queue again
HandleSuccess_dequeues(c) ==
    /\ pc[c] = "succeeded"
    /\ rate_limits' = [rate_limits EXCEPT ![cprov[c]] =
                          update_rate_limit_info(cprov[c], response[c])]
    /\ backoff_until' = [backoff_until EXCEPT ![cprov[c]] = 0]
    /\ request_queues' =
          [request_queues EXCEPT ![cprov[c]] =
              SelectSeq(@, LAMBDA item : item.func # c)]
    /\ result' = [result EXCEPT ![c] = response[c]]
    /\ pc' = [pc EXCEPT ![c] = "returned"]
    /\ UNCHANGED <<now, retry_config, env, request_history,
                   cprov, attempt, error, last_error, response, wake_at,
                   invocations, successes, retryable_failures, quota_failures,
                   last_outcome, raised, bo_at_call, q_at_call, enq_attempts, adm_waits,
                   retry_waits, drainVars, fnVars, cutoff, monVars, queueVars>>

\* the rest of the try block: snapshot refreshed, backoff reset, return
HandleSuccess(c) ==
    /\ pc[c] = "succeeded"
    /\ rate_limits' = [rate_limits EXCEPT ![cprov[c]] =
                          update_rate_limit_info(cprov[c], response[c])]
    /\ backoff_until' = [backoff_until EXCEPT ![cprov[c]] = 0]
    /\ result' = [result EXCEPT ![c] = response[c]]
    /\ pc' = [pc EXCEPT ![c] = "returned"]
    /\ UNCHANGED <<now, retry_config, env, request_queues, request_history,
                   cprov, attempt, error, last_error, response, wake_at,
                   invocations, successes, retryable_failures, quota_failures,
                   last_outcome, raised, bo_at_call, q_at_call, enq_attempts, adm_waits,
                   retry_waits, drainVars, fnVars, cutoff, monVars, queueVars>>

\* RateLimiter._queue_request: the new deque of the provider
queue_request(p, f) ==
    add_request(request_queues[p], RequestData(f, p, now), now)[1]

\* a terminal failure raised as an error of the governor's own
terminal_error_wrapped(c) ==
    IF attempt[c] >= retry_config.max_retries
    THEN Error({}, "governor", attempt[c])
    ELSE error[c]

\* raise error: the exception the except block lets out
terminal_error(c) == error[c]

\* an except block that backs off before it raises a terminal failure
HandleFailure_backs_off_then_raises(c) ==
    /\ pc[c] = "failed"
    /\ last_error' = [last_error EXCEPT ![c] = error[c]]
    /\ LET p == cprov[c]
           sr == should_retry(retry_config, error[c], attempt[c])
       IN IF ~sr[1]
          THEN /\ backoff_until' =
                     [backoff_until EXCEPT ![p] = now + retry_config.base_delay]
               /\ raised' = [raised EXCEPT ![c] = error[c]]
               /\ pc' = [pc EXCEPT ![c] = "raised"]
               /\ UNCHANGED <<request_queues, enq_attempts, wake_at, attempt,
                              retry_waits>>
          ELSE \E delay \in calculate_backoff_delay(retry_config, attempt[c], sr[2]) :
               /\ backoff_until' = [backoff_until EXCEPT ![p] = now + delay]
               /\ IF sr[2] = "quota_exceeded"
                  THEN /\ qlock[p] = "free"
                       /\ request_queues' =
                            [request_queues EXCEPT ![p] =
                                add_request(@, RequestData(c, p, now), now)[1]]
                       /\ enq_attempts' = [enq_attempts EXCEPT ![c] = @ + 1]
                  ELSE UNCHANGED <<request_queues, enq_attempts>>
               /\ pc' = [pc EXCEPT ![c] = "retry_wait"]
               /\ wake_at' = [wake_at EXCEPT ![c] = now + delay]
               /\ retry_waits' = [retry_waits EXCEPT ![c] = @ + 1]
               /\ UNCHANGED <<attempt, raised>>
    /\ UNCHANGED <<now, retry_config, env, rate_limits, request_history,
                   cprov, error, response, invocations, successes,
                   retryable_failures, quota_failures, last_outcome, result,
                   bo_at_call, q_at_call, adm_waits, drainVars, fnVars, cutoff, monVars,
                   queueVars>>

\* a failure that never replaces a backoff by an earlier instant
HandleFailure_keeps_longer(c) ==
    /\ pc[c] = "failed"
    /\ last_error' = [last_error EXCEPT ![c] = error[c]]
    /\ LET p == cprov[c]
           sr == should_retry(retry_config, error[c], attempt[c])
       IN IF ~sr[1]
          THEN \* raise error
               /\ raised' = [raised EXCEPT ![c] = terminal_error(c)]
               /\ pc' = [pc EXCEPT ![c] = "raised"]
               /\ UNCHANGED <<backoff_until, request_queues, enq_attempts,
                              wake_at, attempt, retry_waits>>
          ELSE \E delay \in calculate_backoff_delay(retry_config, attempt[c], sr[2]) :
               /\ backoff_until' = [backoff_until EXCEPT ![p] =
                      IF @ > now + delay THEN @ ELSE now + delay]
               /\ IF sr[2] = "quota_exceeded"
                  THEN /\ qlock[p] = "free"
                       /\ request_queues' =
                            [request_queues EXCEPT ![p] = queue_request(p, c)]
                       /\ enq_attempts' = [enq_attempts EXCEPT ![c] = @ + 1]
                  ELSE UNCHANGED <<request_queues, enq_attempts>>
               /\ IF attempt[c] < retry_config.max_retries
                  THEN \* time.sleep(delay)
                       /\ pc' = [pc EXCEPT ![c] = "retry_wait"]
                       /\ wake_at' = [wake_at EXCEPT ![c] = now + delay]
                       /\ retry_waits' = [retry_waits EXCEPT ![c] = @ + 1]
                       /\ UNCHANGED <<attempt, raised>>
                  ELSE \* no sleep: the loop goes on at once
                       /\ attempt' = [attempt EXCEPT ![c] = @ + 1]
                       /\ pc' = [pc EXCEPT ![c] =
                              IF InRange(attempt[c] + 1) THEN "attempt" ELSE "raised"]
                       /\ raised' = [raised EXCEPT ![c] =
                              IF InRange(attempt[c] + 1) THEN @ ELSE error[c]]
                       /\ UNCHANGED <<wake_at, retry_waits>>
    /\ UNCHANGED <<now, retry_config, env, rate_limits, request_history,
                   cprov, error, response, invocations, successes,
                   retryable_failures, quota_failures, last_outcome, result,
                   bo_at_call, q_at_call, adm_waits, drainVars, fnVars, cutoff, monVars,
                   queueVars>>

\* the except block
HandleFailure(c) ==
    /\ pc[c] = "failed"
    /\ last_error' = [last_error EXCEPT ![c] = error[c]]
    /\ LET p == cprov[c]
           sr == should_retry(retry_config, error[c], attempt[c])
       IN IF ~sr[1]
          THEN \* raise error
               /\ raised' = [raised EXCEPT ![c] = terminal_error(c)]
               /\ pc' = [pc EXCEPT ![c] = "raised"]
               /\ UNCHANGED <<backoff_until, request_queues, enq_attempts,
                              wake_at, attempt, retry_waits>>
          ELSE \E delay \in calculate_backoff_delay(retry_config, attempt[c], sr[2]) :
               /\ backoff_until' = [backoff_until EXCEPT ![p] = now + delay]
               /\ IF sr[2] = "quota_exceeded"
                  THEN /\ qlock[p] = "free"
                       /\ request_queues' =
                            [request_queues EXCEPT ![p] = queue_request(p, c)]
                       /\ enq_attempts' = [enq_attempts EXCEPT ![c] = @ + 1]
                  ELSE UNCHANGED <<request_queues, enq_attempts>>
               /\ IF attempt[c] < retry_config.max_retries
                  THEN \* time.sleep(delay)
                       /\ pc' = [pc EXCEPT ![c] = "retry_wait"]
                       /\ wake_at' = [wake_at EXCEPT ![c] = now + delay]
                       /\ retry_waits' = [retry_waits EXCEPT ![c] = @ + 1]
                       /\ UNCHANGED <<attempt, raised>>
                  ELSE \* no sleep: the loop goes on at once
                       /\ attempt' = [attempt EXCEPT ![c] = @ + 1]
                       /\ pc' = [pc EXCEPT ![c] =
                              IF InRange(attempt[c] + 1) THEN "attempt" ELSE "raised"]
                       /\ raised' = [raised EXCEPT ![c] =
                              IF InRange(attempt[c] + 1) THEN @ ELSE error[c]]
                       /\ UNCHANGED <<wake_at, retry_waits>>
    /\ UNCHANGED <<now, retry_config, env, rate_limits, request_history,
                   cprov, error, response, invocations, successes,
                   retryable_failures, quota_failures, last_outcome, result,
                   bo_at_call, q_at_call, adm_waits, drainVars, fnVars, cutoff, monVars,
                   queueVars>>

\* time.sleep(delay) returns: next iteration, or the loop is exhausted and
\* last_error is raised
RetryWake(c) ==
    /\ pc[c] = "retry_wait"
    /\ now >= wake_at[c]
    /\ attempt' = [attempt EXCEPT ![c] = @ + 1]
    /\ pc' = [pc EXCEPT ![c] =
           IF InRange(attempt[c] + 1) THEN "attempt" ELSE "raised"]
    /\ raised' = [raised EXCEPT ![c] =
           IF InRange(attempt[c] + 1) THEN @ ELSE last_error[c]]
    /\ UNCHANGED <<now, retry_config, env, govVars, cprov, error, last_error,
                   response, wake_at, invocations, successes,
                   retryable_failures, quota_failures, last_outcome, result,
                   bo_at_call, q_at_call, enq_attempts, adm_waits,
                   retry_waits, drainVars, fnVars, cutoff, monVars, queueVars>>

\* ------------------------------ the history bookkeeping, statement by statement
\* The head of the try block as the interpreter runs it when threads share
\* the governor: the append, the loop condition and the popleft are separate
\* statements, and nothing in the code keeps another thread from running
\* between them.
\* self.request_history[provider].append(time.time()); cutoff = time.time() - 60
HistoryAppend(c) ==
    /\ pc[c] = "attempt"
    /\ request_history' = [request_history EXCEPT ![cprov[c]] = Append(@, now)]
    /\ cutoff' = [cutoff EXCEPT ![c] = now - HistoryWindow]
    /\ pc' = [pc EXCEPT ![c] = "prune_check"]
    /\ UNCHANGED <<now, retry_config, env, backoff_until, request_queues,
                   rate_limits, cprov, attempt, error, last_error, response,
                   wake_at, logVars, drainVars, fnVars, queueVars,
                   monVars>>

\* while self.request_history[provider] and
\*       self.request_history[provider][0] < cutoff
HistoryCheck(c) ==
    /\ pc[c] = "prune_check"
    /\ LET h == request_history[cprov[c]] IN
         pc' = [pc EXCEPT ![c] =
                  IF Len(h) > 0 /\ Head(h) < cutoff[c]
                  THEN "prune_pop"
                  ELSE "invoking"]
    /\ UNCHANGED <<now, retry_config, env, govVars, cprov, attempt, error,
                   last_error, response, wake_at, cutoff, monVars, logVars, drainVars,
                   fnVars, queueVars>>

\* a clean-up with an if in place of the while: one entry is dropped at most
HistoryPop_once(c) ==
    /\ pc[c] = "prune_pop"
    /\ LET h == request_history[cprov[c]] IN
         IF Len(h) = 0
         THEN /\ error' = [error EXCEPT ![c] = Error({}, "deque", attempt[c])]
              /\ pc' = [pc EXCEPT ![c] = "failed"]
              /\ UNCHANGED request_history
         ELSE /\ request_history' =
                    [request_history EXCEPT ![cprov[c]] = Tail(h)]
              /\ pc' = [pc EXCEPT ![c] = "invoking"]
              /\ UNCHANGED error
    /\ UNCHANGED <<now, retry_config, env, backoff_until, request_queues,
                   rate_limits, cprov, attempt, last_error, response,
                   wake_at, cutoff, monVars, logVars, drainVars, fnVars, queueVars>>

\* self.request_history[provider].popleft(): on an empty deque it raises
\* IndexError("pop from an empty deque") inside the try block, a message no
\* rule matches
HistoryPop(c) ==
    /\ pc[c] = "prune_pop"
    /\ LET h == request_history[cprov[c]] IN
         IF Len(h) = 0
         THEN /\ error' = [error EXCEPT ![c] = Error({}, "deque", attempt[c])]
              /\ pc' = [pc EXCEPT ![c] = "failed"]
              /\ UNCHANGED request_history
         ELSE /\ request_history' =
                    [request_history EXCEPT ![cprov[c]] = Tail(h)]
              /\ pc' = [pc EXCEPT ![c] = "prune_check"]
              /\ UNCHANGED error
    /\ UNCHANGED <<now, retry_config, env, backoff_until, request_queues,
                   rate_limits, cprov, attempt, last_error, response,
                   wake_at, cutoff, monVars, logVars, drainVars, fnVars, queueVars>>

\* request_func returns a response
InvokeReturns(c) ==
    /\ pc[c] = "invoking"
    /\ \E h \in env.headers :
         /\ response' = [response EXCEPT ![c] = Response(h, c, attempt[c])]
         /\ last_outcome' = [last_outcome EXCEPT ![c] =
                Outcome(TRUE, NoError, Response(h, c, attempt[c]))]
    /\ invocations' = [invocations EXCEPT ![c] = @ + 1]
    /\ successes' = [successes EXCEPT ![c] = @ + 1]
    /\ pc' = [pc EXCEPT ![c] = "succeeded"]
    /\ UNCHANGED <<now, retry_config, env, govVars, cprov, attempt, error,
                   last_error, wake_at, cutoff, monVars, retryable_failures,
                   quota_failures, result, raised, bo_at_call, q_at_call,
                   enq_attempts, adm_waits, retry_waits, drainVars, fnVars,
                   queueVars>>

\* request_func raises
InvokeRaises(c) ==
    /\ pc[c] = "invoking"
    /\ \E m \in env.messages :
         /\ error' = [error EXCEPT ![c] = Error(m, c, attempt[c])]
         /\ last_outcome' = [last_outcome EXCEPT ![c] =
                Outcome(FALSE, Error(m, c, attempt[c]), NoResponse)]
         /\ retryable_failures' = [retryable_failures EXCEPT ![c] =
                IF m \in RetryableMessages THEN @ + 1 ELSE @]
         /\ quota_failures' = [quota_failures EXCEPT ![c] =
                IF m \in QuotaMessages THEN @ + 1 ELSE @]
    /\ invocations' = [invocations EXCEPT ![c] = @ + 1]
    /\ pc' = [pc EXCEPT ![c] = "failed"]
    /\ UNCHANGED <<now, retry_config, env, govVars, cprov, attempt,
                   last_error, response, wake_at, cutoff, monVars, successes, result,
                   raised, bo_at_call, q_at_call, enq_attempts, adm_waits,
                   retry_waits, drainVars, fnVars, queueVars>>

\* ------------------------------------------------------ execute_with_retry
\* The coroutine form. Its positions are those of the blocking form; the
\* wait between attempts is "await asyncio.sleep(delay)".
\* the coroutine is started: _wait_for_backoff (the blocking one), then the
\* loop is entered
CallAsync(c, p) ==
    /\ pc[c] = "idle"
    /\ cprov' = [cprov EXCEPT ![c] = p]
    /\ bo_at_call' = [bo_at_call EXCEPT ![c] = backoff_until[p]]
    /\ q_at_call' = [q_at_call EXCEPT ![c] = request_queues[p]]
    /\ last_error' = [last_error EXCEPT ![c] = NoError]
    /\ attempt' = [attempt EXCEPT ![c] = 0]
    /\ LET wait_time == wait_for_backoff(p) IN
         IF wait_time > 0
         THEN /\ pc' = [pc EXCEPT ![c] = "admission_wait"]
              /\ wake_at' = [wake_at EXCEPT ![c] = now + wait_time]
              /\ adm_waits' = [adm_waits EXCEPT ![c] = @ + 1]
         ELSE /\ pc' = [pc EXCEPT ![c] =
                     IF InRange(0) THEN "attempt" ELSE "raised"]
              /\ UNCHANGED <<wake_at, adm_waits>>
    /\ UNCHANGED <<now, retry_config, env, govVars, error, response,
                   invocations, successes, retryable_failures, quota_failures,
                   last_outcome, result, raised, enq_attempts, retry_waits,
                   drainVars, fnVars, cutoff, monVars, queueVars>>

\* one attempt of the coroutine: history recorded, request_func (called, not
\* awaited) returns a response
AttemptReturnsAsync(c) ==
    /\ pc[c] = "attempt"
    /\ RecordAttempt(c)
    /\ \E h \in env.headers :
         /\ response' = [response EXCEPT ![c] = Response(h, c, attempt[c])]
         /\ last_outcome' = [last_outcome EXCEPT ![c] =
                Outcome(TRUE, NoError, Response(h, c, attempt[c]))]
    /\ invocations' = [invocations EXCEPT ![c] = @ + 1]
    /\ successes' = [successes EXCEPT ![c] = @ + 1]
    /\ pc' = [pc EXCEPT ![c] = "succeeded"]
    /\ UNCHANGED <<now, retry_config, env, backoff_until, request_queues,
                   rate_limits, cprov, attempt, error, last_error, wake_at,
                   retryable_failures, quota_failures, result, raised,
                   bo_at_call, q_at_call, enq_attempts, adm_waits,
                   retry_waits, drainVars, fnVars, cutoff, monVars, queueVars>>

\* one attempt of the coroutine: history recorded, request_func raises
AttemptRaisesAsync(c) ==
    /\ pc[c] = "attempt"
    /\ RecordAttempt(c)
    /\ \E m \in env.messages :
         /\ error' = [error EXCEPT ![c] = Error(m, c, attempt[c])]
         /\ last_outcome' = [last_outcome EXCEPT ![c] =
                Outcome(FALSE, Error(m, c, attempt[c]), NoResponse)]
         /\ retryable_failures' = [retryable_failures EXCEPT ![c] =
                IF m \in RetryableMessages THEN @ + 1 ELSE @]
         /\ quota_failures' = [quota_failures EXCEPT ![c] =
                IF m \in QuotaMessages THEN @ + 1 ELSE @]
    /\ invocations' = [invocations EXCEPT ![c] = @ + 1]
    /\ pc' = [pc EXCEPT ![c] = "failed"]
    /\ UNCHANGED <<now, retry_config, env, backoff_until, request_queues,
                   rate_limits, cprov, attempt, last_error, response, wake_at,
                   successes, result, raised, bo_at_call, q_at_call,
                   enq_attempts, adm_waits, retry_waits, drainVars, fnVars, cutoff, monVars,
                   queueVars>>

\* the try block of a coroutine that returns without refreshing the snapshot
HandleSuccessAsync_no_update(c) ==
    /\ pc[c] = "succeeded"
    /\ backoff_until' = [backoff_until EXCEPT ![cprov[c]] = 0]
    /\ result' = [result EXCEPT ![c] = response[c]]
    /\ pc' = [pc EXCEPT ![c] = "returned"]
    /\ UNCHANGED <<now, retry_config, env, request_queues, rate_limits,
                   request_history, cprov, attempt, error, last_error,
                   response, wake_at, logVars, drainVars, fnVars, cutoff, monVars,
                   queueVars>>

\* the rest of the try block of the coroutine
HandleSuccessAsync(c) ==
    /\ pc[c] = "succeeded"
    /\ rate_limits' = [rate_limits EXCEPT ![cprov[c]] =
                          update_rate_limit_info(cprov[c], response[c])]
    /\ backoff_until' = [backoff_until EXCEPT ![cprov[c]] = 0]
    /\ result' = [result EXCEPT ![c] = response[c]]
    /\ pc' = [pc EXCEPT ![c] = "returned"]
    /\ UNCHANGED <<now, retry_config, env, request_queues, request_history,
                   cprov, attempt, error, last_error, response, wake_at,
                   invocations, successes, retryable_failures, quota_failures,
                   last_outcome, raised, bo_at_call, q_at_call, enq_attempts,
                   adm_waits, retry_waits, drainVars, fnVars, cutoff, monVars, queueVars>>

\* the except block of the coroutine
HandleFailureAsync(c) ==
    /\ pc[c] = "failed"
    /\ last_error' = [last_error EXCEPT ![c] = error[c]]
    /\ LET p == cprov[c]
           sr == should_retry(retry_config, error[c], attempt[c])
       IN IF ~sr[1]
          THEN \* raise error
               /\ raised' = [raised EXCEPT ![c] = error[c]]
               /\ pc' = [pc EXCEPT ![c] = "raised"]
               /\ UNCHANGED <<backoff_until, request_queues, enq_attempts,
                              wake_at, attempt, retry_waits>>
          ELSE \E delay \in
                   calculate_backoff_delay(retry_config, attempt[c], sr[2]) :
               /\ backoff_until' = [backoff_until EXCEPT ![p] = now + delay]
               /\ IF sr[2] = "quota_exceeded"
                  THEN /\ qlock[p] = "free"
                       /\ request_queues' =
                            [request_queues EXCEPT ![p] = queue_request(p, c)]
                       /\ enq_attempts' = [enq_attempts EXCEPT ![c] = @ + 1]
                  ELSE UNCHANGED <<request_queues, enq_attempts>>
               /\ IF attempt[c] < retry_config.max_retries
                  THEN \* await asyncio.sleep(delay)
                       /\ pc' = [pc EXCEPT ![c] = "retry_wait"]
                       /\ wake_at' = [wake_at EXCEPT ![c] = now + delay]
                       /\ retry_waits' = [retry_waits EXCEPT ![c] = @ + 1]
                       /\ UNCHANGED <<attempt, raised>>
                  ELSE \* no sleep: the loop goes on at once
                       /\ attempt' = [attempt EXCEPT ![c] = @ + 1]
                       /\ pc' = [pc EXCEPT ![c] =
                              IF InRange(attempt[c] + 1)
                              THEN "attempt" ELSE "raised"]
                       /\ raised' = [raised EXCEPT ![c] =
                              IF InRange(attempt[c] + 1) THEN @ ELSE error[c]]
                       /\ UNCHANGED <<wake_at, retry_waits>>
    /\ UNCHANGED <<now, retry_config, env, rate_limits, request_history,
                   cprov, error, response, invocations, successes,
                   retryable_failures, quota_failures, last_outcome, result,
                   bo_at_call, q_at_call, adm_waits, drainVars, fnVars, cutoff, monVars,
                   queueVars>>

\* asyncio.sleep(delay) completes: next iteration, or the loop is exhausted
\* and last_error is raised
RetryResume(c) ==
    /\ pc[c] = "retry_wait"
    /\ now >= wake_at[c]
    /\ attempt' = [attempt EXCEPT ![c] = @ + 1]
    /\ pc' = [pc EXCEPT ![c] =
           IF InRange(attempt[c] + 1) THEN "attempt" ELSE "raised"]
    /\ raised' = [raised EXCEPT ![c] =
           IF InRange(attempt[c] + 1) THEN @ ELSE last_error[c]]
    /\ UNCHANGED <<now, retry_config, env, govVars, cprov, error, last_error,
                   response, wake_at, invocations, successes,
                   retryable_failures, quota_failures, last_outcome, result,
                   bo_at_call, q_at_call, enq_attempts, adm_waits,
                   retry_waits, drainVars, fnVars, cutoff, monVars, queueVars>>

\* ------------------------------------------------- process_queued_requests
\* the call is issued by a sweep that does not look at the backoff
ProcessStart_ignores_backoff(p, m) ==
    /\ dpc = "idle"
    /\ dprov' = p
    /\ max_requests' = m
    /\ processed' = 0
    /\ dpc' = "loop"
    /\ dreturned' = << >>
    /\ UNCHANGED <<now, retry_config, env, govVars, callVars, logVars,
                   request_data, derror, dpopped, fnVars, cutoff, monVars, queueVars>>

\* the call is issued: the backoff check, and return 0 while a backoff is
\* active
ProcessStart(p, m) ==
    /\ dpc = "idle"
    /\ dprov' = p
    /\ max_requests' = m
    /\ processed' = 0
    /\ dpc' = IF backoff_until[p] > now THEN "skipped" ELSE "loop"
    /\ dreturned' = << >>
    /\ UNCHANGED <<now, retry_config, env, govVars, callVars, logVars,
                   request_data, derror, dpopped, fnVars, cutoff, monVars, queueVars>>

\* a while condition that lets one item more through:
\* processed <= max_requests
ProcessNext_one_more ==
    /\ dpc = "loop"
    /\ qlock[dprov] = "free"
    /\ dpc' = IF processed <= max_requests /\ Len(request_queues[dprov]) > 0
              THEN "pop"
              ELSE "done"
    /\ UNCHANGED <<now, retry_config, env, govVars, callVars, logVars,
                   dprov, max_requests, processed, request_data, derror,
                   dpopped, dreturned, fnVars, cutoff, monVars, queueVars>>

\* the while condition: processed < max_requests and queue.size() > 0
ProcessNext ==
    /\ dpc = "loop"
    /\ qlock[dprov] = "free"
    /\ dpc' = IF processed < max_requests /\ Len(request_queues[dprov]) > 0
              THEN "pop"
              ELSE "done"
    /\ UNCHANGED <<now, retry_config, env, govVars, callVars, logVars,
                   dprov, max_requests, processed, request_data, derror,
                   dpopped, dreturned, fnVars, cutoff, monVars, queueVars>>

\* get_next_request, and the break when it hands back None; the count of
\* pops is kept up to MaxPops and stays there
ProcessPop ==
    /\ dpc = "pop"
    /\ qlock[dprov] = "free"
    /\ LET r == get_next_request(request_queues[dprov]) IN
         IF r[2] = NoRequest
         THEN /\ dpc' = "done"
              /\ UNCHANGED <<request_queues, request_data, dpopped>>
         ELSE /\ request_queues' = [request_queues EXCEPT ![dprov] = r[1]]
              /\ request_data' = r[2]
              /\ dpopped' = Min(dpopped + 1, MaxPops)
              /\ dpc' = "invoking"
    /\ UNCHANGED <<now, retry_config, env, backoff_until, rate_limits,
                   request_history, callVars, logVars, dprov, max_requests,
                   processed, derror, dreturned, fnVars, cutoff, monVars, queueVars>>

\* the queued call returns
ProcessInvokeReturns ==
    /\ dpc = "invoking"
    /\ processed' = processed + 1
    /\ dreturned' = Append(dreturned, request_data)
    /\ dpc' = "loop"
    /\ UNCHANGED <<now, retry_config, env, govVars, callVars, logVars,
                   dprov, max_requests, request_data, derror, dpopped,
                   fnVars, cutoff, monVars, queueVars>>

\* an except block that raises again what it does not put back
ProcessInvokeRaises_propagates ==
    /\ dpc = "invoking"
    /\ \E m \in env.messages :
         LET e == Error(m, request_data.func, 0) IN
         /\ derror' = e
         /\ IF should_retry(retry_config, e, 0)[1]
            THEN /\ qlock[dprov] = "free"
                 /\ request_queues' = [request_queues EXCEPT ![dprov] =
                        add_request(@, request_data, now)[1]]
                 /\ dpc' = "loop"
            ELSE /\ UNCHANGED request_queues
                 /\ dpc' = "raised"
    /\ UNCHANGED <<now, retry_config, env, backoff_until, rate_limits,
                   request_history, callVars, logVars, dprov, max_requests,
                   processed, request_data, dpopped, dreturned, fnVars, cutoff, monVars,
                   queueVars>>

\* an except block that starts a backoff when it puts the item back
ProcessInvokeRaises_backs_off ==
    /\ dpc = "invoking"
    /\ \E m \in env.messages :
         LET e == Error(m, request_data.func, 0) IN
         /\ derror' = e
         /\ IF should_retry(retry_config, e, 0)[1]
            THEN /\ qlock[dprov] = "free"
                 /\ request_queues' = [request_queues EXCEPT ![dprov] =
                        add_request(@, request_data, now)[1]]
                 /\ backoff_until' = [backoff_until EXCEPT ![dprov] =
                        now + retry_config.quota_exceeded_delay]
            ELSE UNCHANGED <<request_queues, backoff_until>>
    /\ dpc' = "loop"
    /\ UNCHANGED <<now, retry_config, env, rate_limits,
                   request_history, callVars, logVars, dprov, max_requests,
                   processed, request_data, dpopped, dreturned, fnVars, cutoff, monVars,
                   queueVars>>

\* the queued call raises: it is put back when _should_retry(e, 0) says so
ProcessInvokeRaises ==
    /\ dpc = "invoking"
    /\ \E m \in env.messages :
         LET e == Error(m, request_data.func, 0) IN
         /\ derror' = e
         /\ IF should_retry(retry_config, e, 0)[1]
            THEN /\ qlock[dprov] = "free"
                 /\ request_queues' = [request_queues EXCEPT ![dprov] =
                        add_request(@, request_data, now)[1]]
            ELSE UNCHANGED request_queues
    /\ dpc' = "loop"
    /\ UNCHANGED <<now, retry_config, env, backoff_until, rate_limits,
                   request_history, callVars, logVars, dprov, max_requests,
                   processed, request_data, dpopped, dreturned, fnVars, cutoff, monVars,
                   queueVars>>

\* ------------------------------------------- RequestQueue under its lock
\* A client is a thread that calls a method of a provider's RequestQueue: an
\* execute call inside _queue_request, a sweep, or code that holds the queue
\* (request_queues is a public attribute). Each method body runs inside
\* "with self._lock".
QueueOps == {"add_request", "get_next_request", "size", "clear"}

\* the first position inside the lock of each method
BodyOf(op) ==
    CASE op = "add_request" -> "add_check"
      [] op = "get_next_request" -> "get_body"
      [] op = "size" -> "size_body"
      [] op = "clear" -> "clear_body"

\* a client calls a method of the queue of provider p and enters its body
\* without taking the lock
QueueCall_no_lock(t, op, p) ==
    /\ tpc[t] = "idle"
    /\ qlock' = [qlock EXCEPT ![p] = t]
    /\ tprov' = [tprov EXCEPT ![t] = p]
    /\ tpc' = [tpc EXCEPT ![t] = BodyOf(op)]
    /\ IF op = "add_request"
       THEN /\ added < MaxAdds
            /\ added' = added + 1
            /\ titem' = [titem EXCEPT ![t] =
                   RequestData(Funcs[added + 1], p, NoneInt)]
       ELSE UNCHANGED <<added, titem>>
    /\ UNCHANGED <<now, retry_config, env, govVars, callVars, logVars,
                   drainVars, fnVars, cutoff, monVars, tret, accepted, gone>>

\* a client calls a method of the queue of provider p: with self._lock, it
\* enters the body when the lock is free
QueueCall(t, op, p) ==
    /\ tpc[t] = "idle"
    /\ qlock[p] = "free"
    /\ qlock' = [qlock EXCEPT ![p] = t]
    /\ tprov' = [tprov EXCEPT ![t] = p]
    /\ tpc' = [tpc EXCEPT ![t] = BodyOf(op)]
    /\ IF op = "add_request"
       THEN /\ added < MaxAdds
            /\ added' = added + 1
            /\ titem' = [titem EXCEPT ![t] =
                   RequestData(Funcs[added + 1], p, NoneInt)]
       ELSE UNCHANGED <<added, titem>>
    /\ UNCHANGED <<now, retry_config, env, govVars, callVars, logVars,
                   drainVars, fnVars, cutoff, monVars, tret, accepted, gone>>

\* add_request whose check lets one item more in: len(self.queue) > max_size
QueueAddCheck_off_by_one(t) ==
    /\ tpc[t] = "add_check"
    /\ IF Len(request_queues[tprov[t]]) > QueueMaxSize
       THEN /\ tret' = [tret EXCEPT ![t] =
                   Return("add_request", FALSE, NoRequest, 0)]
            /\ titem' = [titem EXCEPT ![t] = NoRequest]
            /\ qlock' = [qlock EXCEPT ![tprov[t]] = "free"]
            /\ tpc' = [tpc EXCEPT ![t] = "idle"]
       ELSE /\ tpc' = [tpc EXCEPT ![t] = "add_append"]
            /\ UNCHANGED <<tret, titem, qlock>>
    /\ UNCHANGED <<now, retry_config, env, govVars, callVars, logVars,
                   drainVars, fnVars, cutoff, monVars, tprov, added, accepted, gone>>

\* add_request: if len(self.queue) >= self.max_size: return False
QueueAddCheck(t) ==
    /\ tpc[t] = "add_check"
    /\ IF Len(request_queues[tprov[t]]) >= QueueMaxSize
       THEN /\ tret' = [tret EXCEPT ![t] =
                   Return("add_request", FALSE, NoRequest, 0)]
            /\ titem' = [titem EXCEPT ![t] = NoRequest]
            /\ qlock' = [qlock EXCEPT ![tprov[t]] = "free"]
            /\ tpc' = [tpc EXCEPT ![t] = "idle"]
       ELSE /\ tpc' = [tpc EXCEPT ![t] = "add_append"]
            /\ UNCHANGED <<tret, titem, qlock>>
    /\ UNCHANGED <<now, retry_config, env, govVars, callVars, logVars,
                   drainVars, fnVars, cutoff, monVars, tprov, added, accepted, gone>>

\* add_request: queued_at is set, the item appended, True returned (the
\* argument of a call that has returned is forgotten)
QueueAddAppend(t) ==
    /\ tpc[t] = "add_append"
    /\ LET p == tprov[t]
           item == [titem[t] EXCEPT !.queued_at = now]
       IN /\ request_queues' = [request_queues EXCEPT ![p] = Append(@, item)]
          /\ accepted' = [accepted EXCEPT ![p] = Append(@, item)]
          /\ titem' = [titem EXCEPT ![t] = NoRequest]
          /\ tret' = [tret EXCEPT ![t] = Return("add_request", TRUE, NoRequest, 0)]
          /\ qlock' = [qlock EXCEPT ![p] = "free"]
    /\ tpc' = [tpc EXCEPT ![t] = "idle"]
    /\ UNCHANGED <<now, retry_config, env, backoff_until, rate_limits,
                   request_history, callVars, logVars, drainVars, fnVars, cutoff, monVars,
                   tprov, added, gone>>

\* get_next_request: popleft, or None when the deque is empty
QueueGet(t) ==
    /\ tpc[t] = "get_body"
    /\ LET p == tprov[t]
           r == get_next_request(request_queues[p])
       IN /\ request_queues' = [request_queues EXCEPT ![p] = r[1]]
          /\ tret' = [tret EXCEPT ![t] =
                 Return("get_next_request", r[2] # NoRequest, r[2], 0)]
          /\ gone' = [gone EXCEPT ![p] =
                 IF r[2] # NoRequest THEN Append(@, r[2]) ELSE @]
          /\ qlock' = [qlock EXCEPT ![p] = "free"]
    /\ tpc' = [tpc EXCEPT ![t] = "idle"]
    /\ UNCHANGED <<now, retry_config, env, backoff_until, rate_limits,
                   request_history, callVars, logVars, drainVars, fnVars, cutoff, monVars,
                   tprov, titem, added, accepted>>

\* size: len(self.queue)
QueueSize(t) ==
    /\ tpc[t] = "size_body"
    /\ tret' = [tret EXCEPT ![t] =
           Return("size", TRUE, NoRequest, Len(request_queues[tprov[t]]))]
    /\ qlock' = [qlock EXCEPT ![tprov[t]] = "free"]
    /\ tpc' = [tpc EXCEPT ![t] = "idle"]
    /\ UNCHANGED <<now, retry_config, env, govVars, callVars, logVars,
                   drainVars, fnVars, cutoff, monVars, tprov, titem, added, accepted, gone>>

\* clear: self.queue.clear()
QueueClear(t) ==
    /\ tpc[t] = "clear_body"
    /\ LET p == tprov[t]
       IN /\ request_queues' = [request_queues EXCEPT ![p] = << >>]
          /\ gone' = [gone EXCEPT ![p] = @ \o request_queues[p]]
          /\ tret' = [tret EXCEPT ![t] = Return("clear", TRUE, NoRequest, 0)]
          /\ qlock' = [qlock EXCEPT ![p] = "free"]
    /\ tpc' = [tpc EXCEPT ![t] = "idle"]
    /\ UNCHANGED <<now, retry_config, env, backoff_until, rate_limits,
                   request_history, callVars, logVars, drainVars, fnVars, cutoff, monVars,
                   tprov, titem, added, accepted>>

\* -------------------------------------------------------- the instances
\* RateLimiter(retry_config): the state of an instance after construction
RateLimiter(cfg) ==
    [retry_config |-> cfg,
     backoff_until |-> [p \in Providers |-> 0],
     request_queues |-> [p \in Providers |-> << >>],
     rate_limits |-> [p \in Providers |-> EmptyRateLimitInfo],
     request_history |-> [p \in Providers |-> << >>]]

\* the instance the module was loaded with, the one the calls of the run
\* are made on
Initial ==
    [retry_config |-> retry_config,
     backoff_until |-> backoff_until,
     request_queues |-> request_queues,
     rate_limits |-> rate_limits,
     request_history |-> request_history]

\* get_rate_limiter(): the instance the module global names now
get_rate_limiter == IF rate_limiter = "initial" THEN Initial ELSE configured

\* ------------------------------------------------- get_rate_limit_status
\* len([t for t in history if t > time.time() - 60])
RecentRequests(h) ==
    Cardinality({i \in 1..Len(h) : h[i] > now - HistoryWindow})

\* the dict get_rate_limit_status(provider) of instance g returns
get_rate_limit_status(g, p) ==
    [provider |-> p,
     requests_last_minute |-> RecentRequests(g.request_history[p]),
     limit_requests |-> g.rate_limits[p].limit_requests,
     remaining_requests |-> g.rate_limits[p].remaining_requests,
     limit_tokens |-> g.rate_limits[p].limit_tokens,
     remaining_tokens |-> g.rate_limits[p].remaining_tokens,
     reset_requests |-> g.rate_limits[p].reset_requests,
     reset_tokens |-> g.rate_limits[p].reset_tokens,
     backoff_until |-> g.backoff_until[p],
     queue_size |-> Len(g.request_queues[p])]

\* a status call that cleans the history up as an attempt does
GetStatus_prunes(p) ==
    /\ status' = get_rate_limit_status(Initial, p)
    /\ request_history' =
          [request_history EXCEPT
              ![p] = PruneHistory(request_history[p], now - HistoryWindow)]
    /\ UNCHANGED <<now, retry_config, env, backoff_until, request_queues,
                   rate_limits, callVars, logVars, drainVars, fnVars, cutoff,
                   queueVars, rate_limiter, configured>>

\* one get_rate_limit_status call, by a client that holds the first
\* instance or by one that asks for the global one
GetStatus(p) ==
    \E g \in {Initial, get_rate_limiter} :
        /\ status' = get_rate_limit_status(g, p)
        /\ UNCHANGED <<now, retry_config, env, govVars, callVars, logVars,
                       drainVars, fnVars, cutoff, queueVars, rate_limiter,
                       configured>>

\* ---------------------------------------------------- rate_limit_monitor
\* the provider argument of the monitor's commands: a name as typed, or
\* nothing ("")
ProviderArgs == {"", "openai", "Anthropic", "gemini"}

\* str.lower() on those names
Lower(name) == IF name = "Anthropic" THEN "anthropic" ELSE name

\* the keys a clear command writes when the name is used as the key as it
\* was typed
Cleared_as_typed(name) == IF name = "" THEN Providers ELSE {name}

\* the keys a clear command writes: every member of APIProvider when no name
\* is given, else APIProvider(name.lower()), and none when that raises
\* ValueError
Cleared(name) ==
    IF name = "" THEN Providers
    ELSE IF Lower(name) \in Providers THEN {Lower(name)}
    ELSE {}

\* d[k] = v for every k of keys, on a Python dict: a key d does not have
\* is added
StoreAll(d, keys, v) ==
    [k \in DOMAIN d \cup keys |-> IF k \in keys THEN v ELSE d[k]]

\* clear_backoff(provider), on the instance get_rate_limiter() returns
ClearBackoff(name) ==
    /\ IF rate_limiter = "initial"
       THEN /\ backoff_until' = StoreAll(backoff_until, Cleared(name), 0)
            /\ UNCHANGED configured
       ELSE /\ configured' =
                 [configured EXCEPT
                     !.backoff_until = StoreAll(@, Cleared(name), 0)]
            /\ UNCHANGED backoff_until
    /\ UNCHANGED <<now, retry_config, env, request_queues, rate_limits,
                   request_history, callVars, logVars, drainVars, fnVars,
                   cutoff, queueVars, status, rate_limiter>>

\* clear_queues(provider), on the instance get_rate_limiter() returns:
\* RequestQueue.clear() of each queue, under its lock
ClearQueues(name) ==
    /\ IF rate_limiter = "initial"
       THEN /\ \A p \in Cleared(name) : qlock[p] = "free"
            /\ request_queues' =
                  [p \in DOMAIN request_queues |->
                     IF p \in Cleared(name) THEN << >> ELSE request_queues[p]]
            /\ UNCHANGED configured
       ELSE /\ configured' =
                 [configured EXCEPT
                     !.request_queues =
                        [p \in DOMAIN @ |->
                           IF p \in Cleared(name) THEN << >> ELSE @[p]]]
            /\ UNCHANGED request_queues
    /\ UNCHANGED <<now, retry_config, env, backoff_until, rate_limits,
                   request_history, callVars, logVars, drainVars, fnVars,
                   cutoff, queueVars, status, rate_limiter>>

\* the policies configure_retry_settings builds from its arguments
ConfigureArgs ==
    { RetryConfig(mr, 1, 2, 2, FALSE, 50, 2, 3) : mr \in {0, 2} }

\* a reconfiguration that changes the policy of the instance in place
configure_rate_limiter_in_place(cfg) ==
    /\ retry_config' = cfg
    /\ rate_limiter' = rate_limiter
    /\ configured' = configured
    /\ UNCHANGED <<now, env, govVars, callVars, logVars, drainVars,
                   fnVars, cutoff, queueVars, status>>

\* configure_rate_limiter(retry_config): _rate_limiter = RateLimiter(cfg)
configure_rate_limiter(cfg) ==
    /\ rate_limiter' = "configured"
    /\ configured' = RateLimiter(cfg)
    /\ UNCHANGED <<now, retry_config, env, govVars, callVars, logVars,
                   drainVars, fnVars, cutoff, queueVars, status>>

\* ------------------------------------------------------------------ clock
Tick ==
    /\ now < MaxTime
    /\ now' = now + 1
    /\ UNCHANGED <<retry_config, env, govVars, callVars, logVars,
                   drainVars, fnVars, cutoff, monVars, queueVars>>

\* a minute goes by while nothing else happens (once in a run)
Elapse ==
    /\ now < HistoryWindow
    /\ now' = now + HistoryWindow
    /\ UNCHANGED <<retry_config, env, govVars, callVars, logVars,
                   drainVars, fnVars, queueVars, cutoff, monVars>>

\* the clock followed only while a caller is in a sleep that has not ended,
\* for as long as that takes
TickSleep ==
    /\ \E c \in Callers :
         /\ pc[c] \in {"admission_wait", "retry_wait"}
         /\ wake_at[c] > now
    /\ now' = now + 1
    /\ UNCHANGED <<retry_config, env, govVars, callVars, logVars,
                   drainVars, fnVars, cutoff, monVars, queueVars>>

\* --------------------------------------------- _calculate_backoff_delay
Kinds ==
    {"rate_limit", "quota_exceeded", "server_error", "connection_error", "generic"}

\* one evaluation of _calculate_backoff_delay(attempt, error_type)
Compute ==
    \E a \in 0..MaxFnAttempt, k \in Kinds :
      \E d \in calculate_backoff_delay(retry_config, a, k) :
        /\ fn_in' = <<a, k>>
        /\ fn_out' = d
        /\ UNCHANGED <<now, retry_config, env, govVars, callVars,
                       logVars, drainVars, queueVars, sr_in, sr_out,
                       cutoff, monVars>>

\* ----------------------------------------------------------- _should_retry
\* every message: each combination of the rule groups it has substrings of
RuleGroups ==
    {RateLimitTerms, QuotaTerms, ServerTerms, ConnectionTerms, ClientTerms}
AllMessages == SUBSET RuleGroups

\* one evaluation of _should_retry(error, attempt)
Classify ==
    \E m \in AllMessages, a \in 0..MaxFnAttempt :
        /\ sr_in' = <<m, a>>
        /\ sr_out' = should_retry(retry_config, Error(m, "nobody", 0), a)
        /\ UNCHANGED <<now, retry_config, env, govVars, callVars, logVars,
                       drainVars, queueVars, fn_in, fn_out, cutoff, monVars>>

\* an exception with the name of its type: kind is the set of rule groups
\* type(error).__name__.lower() has a substring of
ErrorOfKind(m, k) == [msg |-> m, kind |-> k, by |-> "nobody", n |-> 0]

\* names of types: one with no rule substring (ValueError), one with
\* "timeout" or "connection" (APITimeoutError), one with "invalid"
\* (InvalidRequestError), one with substrings of two groups
TypeNames ==
    { {}, {ConnectionTerms}, {ClientTerms}, {RateLimitTerms, ClientTerms} }

\* one evaluation of _should_retry(error, attempt), for the messages of the
\* runs and those names of the type of the error
ClassifyKind ==
    \E m \in Messages, k \in TypeNames, a \in 0..MaxFnAttempt :
        /\ sr_in' = <<m, a, k>>
        /\ sr_out' = should_retry(retry_config, ErrorOfKind(m, k), a)
        /\ UNCHANGED <<now, retry_config, env, govVars, callVars, logVars,
                       drainVars, queueVars, fn_in, fn_out, cutoff, monVars>>

\* ---------------------------------------------------------- specifications
Execute(c) ==
    \/ \E p \in Providers : Call(c, p)
    \/ AdmissionWake(c)
    \/ AttemptReturns(c)
    \/ AttemptRaises(c)
    \/ HandleSuccess(c)
    \/ HandleFailure(c)
    \/ RetryWake(c)

Drain ==
    \/ \E p \in Providers, m \in 1..2 : ProcessStart(p, m)
    \/ ProcessNext
    \/ ProcessPop
    \/ ProcessInvokeReturns
    \/ ProcessInvokeRaises

\* a caller alone on the governor: no backoff is active when its call is
\* issued (backoff_until is set only by the failures of calls), so the
\* admission sleep is not part of its run
ExecuteAlone(c) ==
    \/ \E p \in Providers : Call(c, p)
    \/ AttemptReturns(c)
    \/ AttemptRaises(c)
    \/ HandleSuccess(c)
    \/ HandleFailure(c)
    \/ RetryWake(c)

\* a coroutine alone on the governor
ExecuteAsyncAlone(c) ==
    \/ \E p \in Providers : CallAsync(c, p)
    \/ AttemptReturnsAsync(c)
    \/ AttemptRaisesAsync(c)
    \/ HandleSuccessAsync(c)
    \/ HandleFailureAsync(c)
    \/ RetryResume(c)

\* one call whose steps are taken in the blocking form or in the coroutine
\* form
NextForms == ExecuteAlone("c1") \/ ExecuteAsyncAlone("c1") \/ Tick
SpecForms == Init /\ [][NextForms]_vars

\* one caller
NextExec == ExecuteAlone("c1") \/ Tick
SpecExec == Init /\ [][NextExec]_vars

\* concurrent callers
NextConc == (\E c \in Callers : Execute(c)) \/ Tick
SpecConc == InitConc /\ [][NextConc]_vars

\* a caller of the provider all callers of the run contend for
ExecuteOpenAI(c) ==
    \/ Call(c, "openai")
    \/ AdmissionWake(c)
    \/ AttemptReturns(c)
    \/ AttemptRaises(c)
    \/ HandleSuccess(c)
    \/ HandleFailure(c)
    \/ RetryWake(c)

\* concurrent callers that keep running: every sleep ends, every invocation
\* returns or raises, every handler runs, and the clock goes on
NextConcFair == (\E c \in Callers : ExecuteOpenAI(c)) \/ TickSleep
SpecConcFair ==
    /\ InitFair
    /\ [][NextConcFair]_vars
    /\ \A c \in Callers :
          /\ WF_vars(AdmissionWake(c))
          /\ WF_vars(AttemptReturns(c) \/ AttemptRaises(c))
          /\ WF_vars(HandleSuccess(c))
          /\ WF_vars(HandleFailure(c))
          /\ WF_vars(RetryWake(c))
    /\ WF_vars(TickSleep)

\* concurrent callers and the headers of their responses
SpecSnap == InitSnap /\ [][NextConc]_vars

\* one caller and a sweep of the deferred queue
NextDrain == ExecuteAlone("c1") \/ Drain \/ Tick
SpecDrain == InitDrain /\ [][NextDrain]_vars

\* the same run where the sweep keeps stepping and every call it invokes
\* returns or raises
SpecDrainFair ==
    /\ InitDrain
    /\ [][NextDrain]_vars
    /\ WF_vars(ProcessNext)
    /\ WF_vars(ProcessPop)
    /\ WF_vars(ProcessInvokeReturns \/ ProcessInvokeRaises)

\* the operations of one client of the queues
QueueClient(t) ==
    \/ \E op \in QueueOps, p \in Providers : QueueCall(t, op, p)
    \/ QueueAddCheck(t)
    \/ QueueAddAppend(t)
    \/ QueueGet(t)
    \/ QueueSize(t)
    \/ QueueClear(t)

\* two clients on the queues
NextQueue == \E t \in Threads : QueueClient(t)
SpecQueue == InitQueue /\ [][NextQueue]_vars

\* one client of the queues and a sweep
NextSweep == QueueClient("t1") \/ Drain
SpecSweep == InitSweep /\ [][NextSweep]_vars

\* one thread that uses the queues and calls a sweep, one call after the
\* other: no queue operation runs while the sweep does
NextSeq ==
    \/ dpc \in {"idle", "skipped", "done"} /\ QueueClient("t1")
    \/ tpc["t1"] = "idle" /\ Drain
SpecSeq == InitSweep /\ [][NextSeq]_vars

\* a call seen statement by statement in its history bookkeeping
ExecuteStepwise(c) ==
    \/ Call(c, "openai")
    \/ AdmissionWake(c)
    \/ HistoryAppend(c)
    \/ HistoryCheck(c)
    \/ HistoryPop(c)
    \/ InvokeReturns(c)
    \/ InvokeRaises(c)
    \/ HandleSuccess(c)
    \/ HandleFailure(c)
    \/ RetryWake(c)

\* the same without the admission sleep, for a thread alone on the governor
ExecuteStepwiseAlone(c) ==
    \/ \E p \in Providers : Call(c, p)
    \/ HistoryAppend(c)
    \/ HistoryCheck(c)
    \/ HistoryPop(c)
    \/ InvokeReturns(c)
    \/ InvokeRaises(c)
    \/ HandleSuccess(c)
    \/ HandleFailure(c)
    \/ RetryWake(c)

\* one thread that makes two calls, one after the other, over more than a
\* minute
NextOneThread ==
    \/ ExecuteStepwiseAlone("c1")
    \/ pc["c1"] \in {"returned", "raised"} /\ ExecuteStepwiseAlone("c2")
    \/ Tick
    \/ Elapse
SpecOneThread == InitOneThread /\ [][NextOneThread]_vars

\* threads that call the governor for one provider over more than a minute
NextHistory == (\E c \in Callers : ExecuteStepwise(c)) \/ Tick \/ Elapse
SpecHistory == InitHistory /\ [][NextHistory]_vars

\* the event loop of the coroutine form runs one task at a time: a task has
\* the loop from the moment it is started or resumed until it awaits or
\* ends. Between attempts it awaits (asyncio.sleep); in _wait_for_backoff it
\* does not (time.sleep), so it has the loop while it sleeps there.
OnLoop == {"admission_wait", "attempt", "succeeded", "failed"}
LoopFree(c) == \A d \in Tasks \ {c} : pc[d] \notin OnLoop

\* the steps of the coroutine of one task
ExecuteAsync(c) ==
    \/ CallAsync(c, "openai")
    \/ AdmissionWake(c)
    \/ AttemptReturnsAsync(c)
    \/ AttemptRaisesAsync(c)
    \/ HandleSuccessAsync(c)
    \/ HandleFailureAsync(c)
    \/ RetryResume(c)

\* a task steps when the loop is its own or free
TaskStep(c) == LoopFree(c) /\ ExecuteAsync(c)

\* tasks of one event loop
NextTasks == (\E c \in Tasks : TaskStep(c)) \/ Tick
SpecTasks == InitTasks /\ [][NextTasks]_vars

\* one caller over more than a minute and a reader of the status
NextStatus ==
    \/ ExecuteAlone("c1")
    \/ \E p \in Providers : GetStatus(p)
    \/ Tick
    \/ Elapse
SpecStatus == InitStatus /\ [][NextStatus]_vars

\* one caller on the first instance, a sweep of its queue, and the
\* commands of the monitor
NextMonitor ==
    \/ ExecuteAlone("c1")
    \/ Drain
    \/ \E p \in Providers : GetStatus(p)
    \/ \E name \in ProviderArgs : ClearBackoff(name)
    \/ \E name \in ProviderArgs : ClearQueues(name)
    \/ Tick
SpecMonitor == InitMonitor /\ [][NextMonitor]_vars

\* one caller that holds the first instance, while the module global is
\* reconfigured and the monitor's commands act on the instance it names
NextConfigure ==
    \/ ExecuteAlone("c1")
    \/ \E cfg \in ConfigureArgs : configure_rate_limiter(cfg)
    \/ \E name \in ProviderArgs : ClearBackoff(name)
    \/ \E name \in ProviderArgs : ClearQueues(name)
    \/ \E p \in Providers : GetStatus(p)
    \/ Tick
SpecConfigure == InitMonitor /\ [][NextConfigure]_vars

\* the delay function alone
SpecFn == InitFn /\ [][Compute]_vars

\* the classifier alone
SpecClassify == InitClassify /\ [][Classify]_vars

\* the classifier on errors of every type name
SpecKinds == InitClassify /\ [][ClassifyKind]_vars

\* everything together
Next ==
    \/ \E c \in Callers : Execute(c)
    \/ \E c \in Callers : ExecuteAsyncAlone(c)
    \/ \E t \in Threads : QueueClient(t)
    \/ Drain
    \/ Tick
    \/ Compute
    \/ Classify
    \/ ClassifyKind
    \/ \E p \in Providers : GetStatus(p)
    \/ \E name \in ProviderArgs : ClearBackoff(name)
    \/ \E name \in ProviderArgs : ClearQueues(name)
    \/ \E cfg \in ConfigureArgs : configure_rate_limiter(cfg)
Spec == Init /\ [][Next]_vars

\* ------------------------------------------------------------------ claims
N == retry_config.max_retries
Terminated(c) == pc[c] \in {"returned", "raised"}

\* C1: a call whose invocation fails every time with a retryable error makes
\* exactly max_retries + 1 invocations, never more, and then raises the error
\* of the last one.
C1_RetryExhaustion ==
    \A c \in Callers :
        retryable_failures[c] = invocations[c] =>
            /\ invocations[c] <= N + 1
            /\ Terminated(c) =>
                   /\ pc[c] = "raised"
                   /\ invocations[c] = N + 1
                   /\ raised[c] = last_outcome[c].err

C1_Witness ==
    /\ N = 2
    /\ pc["c1"] = "raised"
    /\ invocations["c1"] = 3
    /\ retryable_failures["c1"] = 3

\* C2: a call whose invocation fails k < max_retries times with a retryable
\* error and then succeeds makes exactly k + 1 invocations and returns the
\* value of the last one.
C2_RetryThenSuccess ==
    \A c \in Callers :
        (successes[c] >= 1 /\ retryable_failures[c] < N) =>
            /\ invocations[c] = retryable_failures[c] + 1
            /\ pc[c] \in {"succeeded", "returned"}
            /\ last_outcome[c].ok
            /\ pc[c] = "returned" => result[c] = last_outcome[c].resp

C2_Witness ==
    /\ N = 2
    /\ pc["c1"] = "returned"
    /\ retryable_failures["c1"] = 1
    /\ invocations["c1"] = 2
    /\ result["c1"] = Response(NoHeaders, "c1", 1)

\* C3: the failure of an invocation with a client error is raised at once:
\* the step that handles it ends the call with that error, starts no wait and
\* changes neither backoff_until nor any deferred queue; when it is the first
\* invocation, the call has invoked exactly once.
C3_ClientErrorShortCircuit ==
    [][\A c \in Callers :
         (pc[c] = "failed" /\ pc'[c] # "failed" /\ error[c].msg = {ClientTerms}) =>
            /\ pc'[c] = "raised"
            /\ raised'[c] = error[c]
            /\ wake_at'[c] = wake_at[c]
            /\ backoff_until' = backoff_until
            /\ request_queues' = request_queues
            /\ attempt[c] = 0 => invocations'[c] = 1]_vars

C3_Witness ==
    /\ pc["c2"] = "raised"
    /\ raised["c2"].msg = {ClientTerms}
    /\ invocations["c2"] = 1
    /\ cprov["c2"] = cprov["c1"]
    /\ bo_at_call["c2"] > 0
    /\ backoff_until[cprov["c2"]] = bo_at_call["c2"]
    /\ Len(request_queues[cprov["c2"]]) = 1
    /\ request_queues[cprov["c2"]] = q_at_call["c2"]

\* C4: every quota_exceeded failure of an invocation triggers exactly one
\* enqueue attempt, also the failure of the last attempt: once a call has
\* handled its failures, it has made as many enqueue attempts as it had quota
\* failures.
C4_EveryQuotaFailureEnqueues ==
    \A c \in Callers :
        pc[c] # "failed" => enq_attempts[c] = quota_failures[c]

\* C5: no caller starts an invocation at an instant when the backoff_until of
\* its provider lies in the future.
C5_NoInvocationDuringBackoff ==
    [][\A c \in Callers :
         (pc[c] = "attempt" /\ pc'[c] \in {"succeeded", "failed"}) =>
            backoff_until[cprov[c]] <= now]_vars

C7_SuccessResetsBackoff ==
    \A c \in Callers :
        pc[c] = "returned" => backoff_until[cprov[c]] = 0

C7_Witness ==
    /\ N = 2
    /\ pc["c1"] = "returned"
    /\ invocations["c1"] = 3
    /\ retryable_failures["c1"] = 3 - 1
    /\ last_error["c1"].msg = {RateLimitTerms}
    /\ backoff_until[cprov["c1"]] = 0

\* C8: the error a call raises is the error its last invocation raised,
\* unchanged, and a call whose last invocation failed does not return.
C8_RaisesLastErrorUnchanged ==
    \A c \in Callers :
        /\ pc[c] = "raised" =>
              /\ ~last_outcome[c].ok
              /\ raised[c] = last_outcome[c].err
        /\ pc[c] = "returned" => last_outcome[c].ok

C8_Witness ==
    /\ pc["c1"] = "raised"
    /\ invocations["c1"] = 2
    /\ retryable_failures["c1"] = 1
    /\ raised["c1"] = Error({ClientTerms}, "c1", 1)

\* C9: with jitter disabled, the delay of attempt 0 is rate_limit_delay for a
\* rate_limit failure and quota_exceeded_delay for a quota_exceeded failure,
\* under every policy.
C9_SpecializedDelayAtAttemptZero ==
    (~retry_config.jitter /\ fn_in[1] = 0) =>
        /\ fn_in[2] = "rate_limit" => fn_out = retry_config.rate_limit_delay
        /\ fn_in[2] = "quota_exceeded" =>
              fn_out = retry_config.quota_exceeded_delay

\* C10: one sweep of the deferred queue pops and re-invokes at most
\* max_requests items.
C10_SweepPopsAtMostMaxItems ==
    dpc # "idle" => dpopped <= max_requests

\* C11: a sweep of the deferred queue that has entered its loop eventually
\* returns, whatever the queued calls do, also when a queued call fails with
\* a retryable error each time it is invoked again.
C11_SweepTerminates ==
    (dpc = "loop") ~> (dpc = "done")

\* C12: when the call of an item the sweep has popped fails, the item is put
\* back at the tail of the provider's queue if and only if the message of the
\* error is of a retryable class (a client error drops it), under every
\* policy, max_retries = 0 included. The queue has room for it.
C12_FailedItemRequeuedIffRetryable ==
    [][(/\ dpc = "invoking" /\ dpc' = "loop" /\ processed' = processed
        /\ Len(request_queues[dprov]) < QueueMaxSize) =>
          IF derror'.msg \in RetryableMessages
          THEN request_queues'[dprov] =
                   Append(request_queues[dprov],
                          [request_data EXCEPT !.queued_at = now])
          ELSE request_queues' = request_queues]_vars

\* C13: a sweep called while backoff_until of its provider lies in the future
\* returns 0 at once: the call is the whole operation, it pops and invokes
\* nothing and leaves every queue as it is.
C13_SweepSkippedDuringBackoff ==
    [][/\ (dpc = "idle" /\ dpc' # "idle" /\ backoff_until[dprov'] > now) =>
            /\ dpc' = "skipped"
            /\ processed' = 0
            /\ dpopped' = 0
            /\ request_queues' = request_queues
       /\ dpc = "skipped" =>
            /\ dpc' = "skipped"
            /\ processed' = 0
            /\ dpopped' = 0]_vars

C13_Witness ==
    /\ dpc = "skipped"
    /\ processed = 0
    /\ dpopped = 0
    /\ backoff_until[dprov] > now
    /\ Len(request_queues[dprov]) > 0
    /\ pc["c1"] = "retry_wait"

\* C14: add_request on a queue that holds max_size items returns False in
\* that step (it does not wait for room) and leaves every queue unchanged;
\* get_next_request on an empty queue returns None and leaves it empty.
C14_FullAndEmptyQueue ==
    [][\A t \in Threads :
         /\ (/\ tpc[t] = "add_check" /\ tpc'[t] # "add_check"
             /\ Len(request_queues[tprov[t]]) >= QueueMaxSize) =>
               /\ tpc'[t] = "idle"
               /\ tret'[t] = Return("add_request", FALSE, NoRequest, 0)
               /\ request_queues' = request_queues
         /\ (/\ tpc[t] = "get_body" /\ tpc'[t] # "get_body"
             /\ request_queues[tprov[t]] = << >>) =>
               /\ tpc'[t] = "idle"
               /\ tret'[t] = Return("get_next_request", FALSE, NoRequest, 0)
               /\ request_queues' = request_queues]_vars

C14_Witness ==
    \E t \in Threads, u \in Threads :
        /\ tpc[t] = "idle"
        /\ tret[t] = Return("add_request", FALSE, NoRequest, 0)
        /\ Len(request_queues[tprov[t]]) = QueueMaxSize
        /\ tpc[u] = "idle"
        /\ tret[u] = Return("get_next_request", FALSE, NoRequest, 0)
        /\ request_queues[tprov[u]] = << >>

\* C15: under every interleaving of the queue operations of concurrent
\* threads, the length of each provider's queue is between 0 and max_size,
\* and the add_request calls that have passed the full check never outnumber
\* the free slots: two concurrent calls on a queue with one free slot do not
\* both succeed.
C15_QueueLengthBounded ==
    \A p \in Providers :
        /\ Len(request_queues[p]) >= 0
        /\ Len(request_queues[p])
             + Cardinality({t \in Threads :
                              tpc[t] = "add_append" /\ tprov[t] = p})
               <= QueueMaxSize

C15_Witness ==
    \E t \in Threads, u \in Threads, p \in Providers :
        /\ t # u
        /\ tprov[t] = p /\ tprov[u] = p
        /\ tpc[t] = "idle" /\ tpc[u] = "idle"
        /\ tret[t] = Return("add_request", TRUE, NoRequest, 0)
        /\ tret[u] = Return("add_request", FALSE, NoRequest, 0)
        /\ Len(request_queues[p]) = QueueMaxSize
        /\ Len(accepted[p]) = QueueMaxSize
        /\ gone[p] = << >>

\* C16: the items that have left a queue, followed by the items still in
\* it, are the items whose add_request succeeded, in the order in which they
\* were accepted: get_next_request hands them out oldest first, each at most
\* once, and an item whose add_request was rejected is never handed out.
C16_FifoOrder ==
    /\ \A p \in Providers :
          /\ accepted[p] = gone[p] \o request_queues[p]
          /\ \A i, j \in 1..Len(accepted[p]) :
                accepted[p][i].func = accepted[p][j].func => i = j
    /\ \A t \in Threads :
          (tret[t].op = "get_next_request" /\ tret[t].ok) =>
              \E p \in Providers :
                  \E i \in 1..Len(gone[p]) : gone[p][i] = tret[t].item

C16_Witness ==
    \E t \in Threads, p \in Providers :
        /\ Len(gone[p]) = 2
        /\ gone[p] = accepted[p]
        /\ request_queues[p] = << >>
        /\ tpc[t] = "idle"
        /\ tret[t] = Return("get_next_request", TRUE, gone[p][2], 0)
        /\ added = MaxAdds
        /\ \A q \in Providers \ {p} : accepted[q] = << >>

\* C17: when every invocation returns or raises, every call that has been
\* issued eventually returns or raises, and a raised error is the one its
\* last invocation raised; at no time has it made more than max_retries + 1
\* invocations, more than one admission sleep or more than max_retries
\* sleeps between attempts.
C17_ExecuteTerminates ==
    /\ [](\A c \in Callers :
            /\ invocations[c] <= N + 1
            /\ adm_waits[c] <= 1
            /\ retry_waits[c] <= N
            /\ pc[c] = "raised" => raised[c] = last_outcome[c].err)
    /\ \A c \in Callers : (pc[c] # "idle") ~> Terminated(c)

C17_Witness ==
    \E c \in Callers :
        /\ pc[c] = "raised"
        /\ adm_waits[c] = 1
        /\ retry_waits[c] = N
        /\ invocations[c] = N + 1
        /\ N >= 1

\* C18: no step of a call for provider p changes the request history, the
\* rate-limit snapshot, backoff_until or the deferred queue of a provider
\* other than p.
C18_NoCrossProviderEffect ==
    [][\A c \in Callers :
         pc'[c] # pc[c] =>
            \A q \in Providers \ {cprov'[c]} :
                /\ request_history'[q] = request_history[q]
                /\ rate_limits'[q] = rate_limits[q]
                /\ backoff_until'[q] = backoff_until[q]
                /\ request_queues'[q] = request_queues[q]]_vars

C18_Witness ==
    \E c \in Callers, d \in Callers :
        /\ c # d
        /\ cprov[c] # cprov[d]
        /\ pc[c] = "raised"
        /\ invocations[c] = 2
        /\ quota_failures[c] = 1
        /\ Len(request_queues[cprov[c]]) = 1
        /\ pc[d] = "retry_wait"
        /\ backoff_until[cprov[d]] > now
        /\ request_queues[cprov[d]] = << >>
        /\ Len(request_history[cprov[d]]) = 1

\* the header a provider reports each field of its snapshot under
HeaderOf(p, f) ==
    IF p = "openai"
    THEN CASE f = "limit_requests" -> "x-ratelimit-limit-requests"
           [] f = "limit_tokens" -> "x-ratelimit-limit-tokens"
           [] f = "remaining_requests" -> "x-ratelimit-remaining-requests"
           [] f = "remaining_tokens" -> "x-ratelimit-remaining-tokens"
           [] f = "reset_requests" -> "x-ratelimit-reset-requests"
           [] f = "reset_tokens" -> "x-ratelimit-reset-tokens"
           [] OTHER -> "not reported"
    ELSE CASE f = "limit_requests" -> "anthropic-ratelimit-requests-limit"
           [] f = "limit_tokens" -> "anthropic-ratelimit-tokens-limit"
           [] f = "remaining_requests" -> "anthropic-ratelimit-requests-remaining"
           [] f = "remaining_tokens" -> "anthropic-ratelimit-tokens-remaining"
           [] f = "reset_requests" -> "anthropic-ratelimit-requests-reset"
           [] f = "reset_tokens" -> "anthropic-ratelimit-tokens-reset"
           [] OTHER -> "retry-after"

\* C19: the snapshot of a provider changes only in the step in which a call
\* for that provider handles a successful invocation; the handling of a
\* failed invocation leaves every snapshot unchanged; after a success each
\* field holds the number the response reports for it, and is unknown when
\* the response does not report one, whatever the record held before.
C19_SnapshotReplacedOnSuccess ==
    [][/\ \A p \in Providers :
            rate_limits'[p] # rate_limits[p] =>
                \E c \in Callers :
                    /\ cprov[c] = p
                    /\ pc[c] = "succeeded" /\ pc'[c] = "returned"
       /\ \A c \in Callers :
            /\ (pc[c] = "failed" /\ pc'[c] # "failed") =>
                   rate_limits' = rate_limits
            /\ (pc[c] = "succeeded" /\ pc'[c] # "succeeded") =>
                   \A f \in DOMAIN EmptyRateLimitInfo :
                       LET h == response[c].headers
                           k == HeaderOf(cprov[c], f)
                       IN rate_limits'[cprov[c]][f] =
                            IF k \in DOMAIN h /\ h[k].text = "digits"
                            THEN h[k].n
                            ELSE NoneInt]_vars

C19_Witness ==
    \E c \in Callers, d \in Callers :
        /\ c # d
        /\ cprov[c] = "openai" /\ cprov[d] = "openai"
        /\ pc[c] = "returned" /\ pc[d] = "returned"
        /\ result[c].headers = OpenAIHeaders
        /\ result[d].headers = NoHeaders
        /\ retryable_failures[d] = 1
        /\ rate_limits["openai"] = EmptyRateLimitInfo

\* C20: from every state, under every policy and for every outcome of the
\* invocation, a step is a step of the coroutine form exactly when it is a
\* step of the blocking form: the two forms make the same invocations,
\* return the same result or raise the same error, and leave the same
\* backoff_until, snapshot, history and queues.
C20_FormsEquivalent ==
    [][ExecuteAsyncAlone("c1") <=> ExecuteAlone("c1")]_vars

C20_Witness ==
    /\ N = 2
    /\ pc["c1"] = "returned"
    /\ invocations["c1"] = 3
    /\ quota_failures["c1"] = 1
    /\ retry_waits["c1"] = 2
    /\ Len(request_queues[cprov["c1"]]) = 1
    /\ result["c1"].headers = AnthropicHeaders
    /\ rate_limits[cprov["c1"]] # EmptyRateLimitInfo

\* the rule groups in the order the spec gives them, and the kind of each
GroupOrder ==
    <<RateLimitTerms, QuotaTerms, ServerTerms, ConnectionTerms, ClientTerms>>

KindOfGroup(g) ==
    CASE g = RateLimitTerms -> "rate_limit"
      [] g = QuotaTerms -> "quota_exceeded"
      [] g = ServerTerms -> "server_error"
      [] g = ConnectionTerms -> "connection_error"
      [] g = ClientTerms -> "client_error"

\* C21: for attempt < max_retries, the classifier returns the kind of the
\* earliest rule group (rate_limit, quota_exceeded, server_error,
\* connection_error, client_error) the message has a substring of, retryable
\* unless that group is client_error; a message that matches no group is
\* (retryable, generic).
C21_FirstMatchWins ==
    (sr_in[2] # NoneInt /\ sr_in[2] < N) =>
        LET hits == {i \in 1..Len(GroupOrder) : GroupOrder[i] \in sr_in[1]}
        IN IF hits = {}
           THEN sr_out = <<TRUE, "generic">>
           ELSE LET first == CHOOSE i \in hits : \A j \in hits : i <= j
                IN sr_out = <<GroupOrder[first] # ClientTerms,
                              KindOfGroup(GroupOrder[first])>>

C21_Witness ==
    /\ sr_in = <<{ConnectionTerms, ClientTerms}, N - 1>>
    /\ sr_out = <<TRUE, "connection_error">>
    /\ N = 2

\* C22: for every message, the classifier called with attempt >= max_retries
\* returns (not retryable, max_retries_exceeded), also for a message that
\* matches a retryable rule; whenever it returns not retryable, the kind is
\* client_error or max_retries_exceeded.
C22_MaxRetriesCheckedFirst ==
    sr_in[2] # NoneInt =>
        /\ sr_in[2] >= N => sr_out = <<FALSE, "max_retries_exceeded">>
        /\ ~sr_out[1] => sr_out[2] \in {"client_error", "max_retries_exceeded"}
        /\ sr_out[1] => sr_out[2] \notin {"client_error", "max_retries_exceeded"}

C22_Witness ==
    /\ sr_in = <<{RateLimitTerms, ClientTerms}, N>>
    /\ sr_out = <<FALSE, "max_retries_exceeded">>
    /\ N = 1

\* C23: with jitter disabled, the delay of attempt n for a generic failure
\* is min(base_delay * exponential_base^n, max_delay): it is base_delay at
\* n = 0, never above max_delay, and not below the delay of attempt n - 1.
C23_GenericDelayExponential ==
    (~retry_config.jitter /\ fn_in[2] = "generic") =>
        LET n == fn_in[1]
            base == retry_config.base_delay
            cap == retry_config.max_delay
        IN /\ fn_out = Min(base * (retry_config.exponential_base ^ n), cap)
           /\ n = 0 => fn_out = base
           /\ fn_out <= cap
           /\ n >= 1 =>
                 \A d \in calculate_backoff_delay(retry_config, n - 1, "generic") :
                     d <= fn_out

C23_Witness ==
    /\ ~retry_config.jitter
    /\ retry_config.base_delay = 2
    /\ retry_config.exponential_base = 3
    /\ retry_config.max_delay = 8
    /\ fn_in = <<1, "generic">>
    /\ fn_out = 6

\* C24: with jitter enabled and fraction f, the delay of every attempt and
\* kind is at least the delay raw of the same attempt and kind with jitter
\* disabled and at most raw * (1 + f).
C24_JitterBounds ==
    (retry_config.jitter /\ fn_in[1] # NoneInt) =>
        \A raw \in calculate_backoff_delay(
                      [retry_config EXCEPT !.jitter = FALSE], fn_in[1], fn_in[2]) :
            /\ raw <= fn_out
            /\ 100 * fn_out <= raw * (100 + retry_config.jitter_max_pct)

C24_Witness ==
    /\ retry_config = DefaultRetryConfig
    /\ fn_in = <<0, "rate_limit">>
    /\ fn_out = 66

\* the queue of the sweep's provider when the sweep was called, in a run
\* where the clients are the only other users of the queue and are idle
\* during the sweep: the accepted items that had not been taken out
QueueAtSweep ==
    SubSeq(accepted[dprov], Len(gone[dprov]) + 1, Len(accepted[dprov]))

\* C25: a sweep with max_requests = m called outside a backoff on a queue of
\* n items whose calls all return, returns min(n, m): the calls that returned
\* are those of the min(n, m) oldest items, each once, oldest first and as
\* stored, and the other items are left in the queue in their order.
C25_SweepProcessesOldestFirst ==
    [][(dpc # "done" /\ dpc' = "done" /\ derror = NoError) =>
          LET n == Len(QueueAtSweep)
              k == Min(n, max_requests)
          IN /\ processed' = k
             /\ dpopped' = k
             /\ dreturned' = SubSeq(QueueAtSweep, 1, k)
             /\ request_queues'[dprov] = SubSeq(QueueAtSweep, k + 1, n)]_vars

C25_Witness ==
    /\ dpc = "done"
    /\ derror = NoError
    /\ max_requests = 1
    /\ Len(accepted[dprov]) = 2
    /\ gone[dprov] = << >>
    /\ processed = 1
    /\ dreturned = <<accepted[dprov][1]>>
    /\ request_queues[dprov] = <<accepted[dprov][2]>>

\* C26: whatever the call of a popped item raises, the sweep takes it in
\* and goes back to its loop condition; the sweep ends only by returning,
\* and its count is at every moment the number of calls that have returned.
C26_SweepSwallowsFailures ==
    [][/\ (dpc = "invoking" /\ dpc' # "invoking") => dpc' = "loop"
       /\ dpc' \in {"idle", "skipped", "loop", "pop", "invoking", "done"}
       /\ processed' = Len(dreturned')
       /\ (dpc = "invoking" /\ derror' # derror) => processed' = processed]_vars

C26_Witness ==
    /\ dpc = "done"
    /\ max_requests = 2
    /\ dpopped = 3
    /\ derror.msg = {ClientTerms}
    /\ processed = 1
    /\ Len(dreturned) = 1
    /\ dreturned[1].func # derror.by
    /\ request_queues[dprov] = << >>

\* C27: in a run of one call, the step that handles the failure of attempt
\* max_retries raises that error whatever its message, and changes neither
\* backoff_until nor any queue, makes no enqueue attempt and starts no wait:
\* with max_retries >= 1 backoff_until of the provider is still the value the
\* failure of attempt max_retries - 1 set (the end of the wait that followed
\* it), and with max_retries = 0 no backoff is ever set and nothing enqueued.
C27_LastFailureTerminal ==
    [][\A c \in Callers :
         /\ (pc[c] = "failed" /\ pc'[c] # "failed" /\ attempt[c] = N) =>
               /\ pc'[c] = "raised"
               /\ raised'[c] = error[c]
               /\ backoff_until' = backoff_until
               /\ request_queues' = request_queues
               /\ enq_attempts' = enq_attempts
               /\ retry_waits' = retry_waits
               /\ wake_at' = wake_at
               /\ N >= 1 => /\ backoff_until'[cprov[c]] = wake_at[c]
                            /\ wake_at[c] > 0
         /\ N = 0 =>
               /\ backoff_until' = [p \in Providers |-> 0]
               /\ request_queues' = [p \in Providers |-> << >>]
               /\ retry_waits'[c] = 0]_vars

C27_Witness ==
    /\ N = 2
    /\ pc["c1"] = "raised"
    /\ invocations["c1"] = 3
    /\ quota_failures["c1"] = 3
    /\ enq_attempts["c1"] = 2
    /\ raised["c1"].msg = {QuotaTerms}
    /\ backoff_until[cprov["c1"]] = wake_at["c1"]
    /\ backoff_until[cprov["c1"]] <= now
    /\ Len(request_queues[cprov["c1"]]) = 2

\* C28: under every interleaving of the calls of concurrent threads for one
\* provider, an entry leaves the request history only when it is older than
\* 60 seconds, so every timestamp recorded inside the window is kept, and the
\* bookkeeping raises no error of its own into the retry loop.
C28_HistoryKeepsWindow ==
    [][\A p \in Providers :
         /\ Len(request_history'[p]) < Len(request_history[p]) =>
               Head(request_history[p]) < now - HistoryWindow
         /\ \A c \in Callers : error'[c].by # "deque"]_vars

\* C29: in the coroutine form, while a task is in the admission wait or in
\* the wait between attempts and no third task is running, a task that has
\* not started yet can run and issue its call.
C29_BothWaitsSuspend ==
    \A c \in Tasks, d \in Tasks :
        (/\ c # d
         /\ pc[c] \in {"admission_wait", "retry_wait"}
         /\ wake_at[c] > now
         /\ pc[d] = "idle"
         /\ \A e \in Tasks \ {c, d} : pc[e] \notin {"attempt", "succeeded", "failed"})
            => ENABLED TaskStep(d)

\* whether a sequence of timestamps is in non-decreasing order
NonDecreasing(h) == \A i, j \in 1..Len(h) : i <= j => h[i] <= h[j]

\* C30: in a run of one thread, when the bookkeeping of an attempt is done
\* the history of the provider holds the timestamp of the attempt, holds no
\* entry older than 60 seconds before it and is in non-decreasing order; the
\* bookkeeping always goes on to the invocation and starts no wait, whatever
\* the history holds.
C30_HistoryWindowSingleCaller ==
    [][\A c \in Callers :
         /\ (pc[c] \in {"prune_check", "prune_pop"} /\ pc'[c] = "invoking") =>
               LET h == request_history'[cprov[c]]
                   t == cutoff[c] + HistoryWindow
               IN /\ \E i \in 1..Len(h) : h[i] = t
                  /\ \A i \in 1..Len(h) : h[i] >= t - HistoryWindow
                  /\ NonDecreasing(h)
         /\ pc[c] \in {"prune_check", "prune_pop"} =>
               /\ pc'[c] \in {"prune_check", "prune_pop", "invoking"}
               /\ wake_at'[c] = wake_at[c]]_vars

C30_Witness ==
    /\ pc["c2"] = "invoking"
    /\ cprov["c2"] = cprov["c1"]
    /\ invocations["c1"] = 2
    /\ request_history[cprov["c2"]] = <<now>>
    /\ cutoff["c2"] = now - HistoryWindow

\* C31: get_rate_limit_status(provider) reports the current state: its count
\* of recent requests is the number of history entries newer than 60 seconds,
\* and the dict carries every field of the provider's RateLimitInfo
\* (retry_after included), backoff_until and the size of the queue.
C31_StatusReportsState ==
    [][status' # status =>
         LET p == status'.provider
         IN /\ status'.requests_last_minute =
                  Cardinality({i \in 1..Len(request_history[p]) :
                                 request_history[p][i] > now - HistoryWindow})
            /\ \A f \in DOMAIN EmptyRateLimitInfo :
                  /\ f \in DOMAIN status'
                  /\ status'[f] = rate_limits[p][f]
            /\ status'.backoff_until = backoff_until[p]
            /\ status'.queue_size = Len(request_queues[p])]_vars

\* the same without retry_after, the field the dict does not have
C31_StatusWithoutRetryAfter ==
    [][status' # status =>
         LET p == status'.provider
         IN /\ status'.requests_last_minute =
                  Cardinality({i \in 1..Len(request_history[p]) :
                                 request_history[p][i] > now - HistoryWindow})
            /\ \A f \in DOMAIN EmptyRateLimitInfo \ {"retry_after"} :
                  /\ f \in DOMAIN status'
                  /\ status'[f] = rate_limits[p][f]
            /\ status'.backoff_until = backoff_until[p]
            /\ status'.queue_size = Len(request_queues[p])
            /\ "retry_after" \notin DOMAIN status']_vars

\* C32: get_rate_limit_status is a pure read: the request history (it is
\* not pruned), the rate-limit info, backoff_until and the queue of every
\* provider are the same before and after the call, and so are the policy
\* and the instances.
C32_StatusIsPureRead ==
    [][(status' # status \/ \E p \in Providers : GetStatus(p)) =>
          UNCHANGED <<request_history, rate_limits, backoff_until,
                      request_queues, retry_config, rate_limiter,
                      configured>>]_vars

\* a status was read while the history still held an entry older than a
\* minute, which it did not count and which is still there
C32_Witness ==
    /\ status.provider = "openai"
    /\ status.requests_last_minute = 1
    /\ Len(request_history["openai"]) = 2
    /\ request_history["openai"][1] <= now - HistoryWindow
    /\ status.queue_size = 1 /\ Len(request_queues["openai"]) = 1
    /\ status.backoff_until = backoff_until["openai"]
    /\ backoff_until["openai"] > 0

\* the keys of the four per-provider maps of an instance
KeysAreProviders(g) ==
    /\ DOMAIN g.rate_limits = Providers
    /\ DOMAIN g.backoff_until = Providers
    /\ DOMAIN g.request_history = Providers
    /\ DOMAIN g.request_queues = Providers

\* C33: in every reachable state, after any sequence of calls, sweeps, status
\* reads, queue clears and backoff clears, each of the four per-provider maps
\* of an instance has exactly the known providers as its keys.
C33_ProviderKeysFixed ==
    /\ KeysAreProviders(Initial)
    /\ rate_limiter = "configured" => KeysAreProviders(configured)

\* the backoff and the queued item of a call were cleared while the call
\* waits for its retry, a status had reported the item, and a sweep then
\* found the queue empty
C33_Witness ==
    /\ pc["c1"] = "retry_wait" /\ quota_failures["c1"] = 1
    /\ backoff_until["openai"] = 0
    /\ request_queues["openai"] = << >>
    /\ status.provider = "openai" /\ status.queue_size = 1
    /\ dpc = "done" /\ dprov = "openai" /\ dpopped = 0

\* C34: the classifier matches the rule substrings against the name of the
\* error's type as well as against its message: for attempt < max_retries, an
\* error whose message matches no rule group and whose type name has a
\* substring of a rule group gets the classification of the earliest such
\* group.
C34_KindIsMatched ==
    (Len(sr_in) = 3 /\ sr_in[2] < N /\ sr_in[1] = {} /\ sr_in[3] # {}) =>
        LET hits == {i \in 1..Len(GroupOrder) : GroupOrder[i] \in sr_in[3]}
            first == CHOOSE i \in hits : \A j \in hits : i <= j
        IN sr_out = <<GroupOrder[first] # ClientTerms,
                      KindOfGroup(GroupOrder[first])>>

\* what the classifier does: the name of the type is not looked at
C34_KindIsIgnored ==
    (Len(sr_in) = 3 /\ sr_in[2] < N) =>
        sr_out = should_retry(retry_config, Error(sr_in[1], "nobody", 0),
                              sr_in[2])

\* C35: configure_rate_limiter installs a new instance whose queues are
\* empty, whose backoff_until is 0 and whose rate-limit info is unknown for
\* every provider, and changes neither the policy nor any per-provider state
\* of the previous instance: a call in flight on the previous instance goes
\* on under the old policy (it raises after max_retries + 1 invocations of
\* the old policy) and the old state.
C35_ReconfigureReplacesInstance ==
    [][/\ (\/ \E cfg \in ConfigureArgs : configure_rate_limiter(cfg)
           \/ rate_limiter' # rate_limiter
           \/ configured'.retry_config # configured.retry_config) =>
             /\ rate_limiter' = "configured"
             /\ \A p \in Providers :
                   /\ configured'.request_queues[p] = << >>
                   /\ configured'.backoff_until[p] = 0
                   /\ configured'.rate_limits[p] = EmptyRateLimitInfo
                   /\ configured'.request_history[p] = << >>
             /\ UNCHANGED <<retry_config, backoff_until, request_queues,
                            rate_limits, request_history, callVars>>
       /\ (pc["c1"] # "raised" /\ pc'["c1"] = "raised") =>
             /\ invocations'["c1"] = retry_config.max_retries + 1
             /\ retry_config.max_retries = 1
       /\ (rate_limiter = "configured" /\ configured' # configured) =>
             UNCHANGED <<backoff_until, request_queues>>]_vars

\* a call on the first instance waits for its retry, with its backoff and
\* its queued item in place, while the module global names a new instance
\* under a policy with no retry
C35_Witness ==
    /\ rate_limiter = "configured"
    /\ configured = RateLimiter(RetryConfig(0, 1, 2, 2, FALSE, 50, 2, 3))
    /\ pc["c1"] = "retry_wait"
    /\ retry_config.max_retries = 1
    /\ backoff_until[cprov["c1"]] > now
    /\ Len(request_queues[cprov["c1"]]) = 1
    /\ status.provider = cprov["c1"]
    /\ status.backoff_until = 0 /\ status.queue_size = 0

\* C36: when a call has enqueued its invocation after a quota_exceeded
\* failure and a later attempt of it succeeds, the queued copy is not taken
\* out: the success leaves the queues as they are, the copies are in the
\* provider's queue when the call has returned, and a sweep started then is
\* not skipped and invokes the same call again.
C36_QueuedCopySurvivesSuccess ==
    [][/\ (pc["c1"] = "succeeded" /\ pc'["c1"] = "returned") =>
             /\ request_queues' = request_queues
             /\ dpc \in {"idle", "skipped"} =>
                   /\ Len(request_queues[cprov["c1"]]) = enq_attempts["c1"]
                   /\ \A i \in 1..Len(request_queues[cprov["c1"]]) :
                         request_queues[cprov["c1"]][i].func = "c1"
       /\ (/\ pc["c1"] = "returned" /\ enq_attempts["c1"] > 0
           /\ dpc = "idle" /\ dpc' # "idle" /\ dprov' = cprov["c1"]) =>
             /\ dpc' = "loop"
             /\ Head(request_queues[dprov']).func = "c1"
       /\ (pc["c1"] = "returned" /\ dpc = "pop" /\ dpc' = "invoking") =>
             /\ request_data'.func = "c1"
             /\ request_data'.provider = cprov["c1"]]_vars

\* the call failed on quota, then succeeded and returned; a sweep has
\* invoked its queued copy, which returned as well
C36_Witness ==
    /\ pc["c1"] = "returned"
    /\ quota_failures["c1"] = 1 /\ enq_attempts["c1"] = 1
    /\ successes["c1"] = 1
    /\ dpc = "done" /\ dprov = cprov["c1"]
    /\ Len(dreturned) = 1 /\ dreturned[1].func = "c1"
    /\ request_queues[dprov] = << >>

\* C37: while a backoff is active, backoff_until of the provider is never
\* replaced by an earlier non-zero instant: under every interleaving of
\* concurrent callers, the retryable failure of one caller never shortens
\* the backoff the failure of another caller has set.
C37_BackoffNeverShortened ==
    [][\A p \in Providers :
         (backoff_until[p] > now /\ backoff_until'[p] # 0) =>
            backoff_until'[p] >= backoff_until[p]]_vars

\* what the program does instead: every retryable failure overwrites
\* backoff_until of its provider with its own now + delay, whatever was
\* there (the last writer wins); every other change of it is the reset to 0
\* by a success. A non-zero value written is later than now.
C37_BackoffLastWriterWins ==
    [][/\ \A c \in Callers :
            LET sr == should_retry(retry_config, error[c], attempt[c])
            IN (pc[c] = "failed" /\ pc'[c] # "failed" /\ sr[1]) =>
                  /\ \E d \in calculate_backoff_delay(retry_config,
                                                      attempt[c], sr[2]) :
                        backoff_until'[cprov[c]] = now + d
                  /\ backoff_until'[cprov[c]] > now
       /\ \A p \in Providers :
            backoff_until'[p] # backoff_until[p] =>
               \/ \E c \in Callers :
                     /\ cprov[c] = p
                     /\ pc[c] = "failed" /\ pc'[c] # "failed"
               \/ /\ backoff_until'[p] = 0
                  /\ \E c \in Callers :
                        /\ cprov[c] = p
                        /\ pc[c] = "succeeded" /\ pc'[c] = "returned"]_vars

\* both callers wait for their retry on one provider; the rate_limit failure
\* of one had set the backoff to 2, the generic failure of the other, handled
\* after it in the same second, has replaced it by 1
C37_ShortenedState ==
    /\ now = 0
    /\ pc["c1"] = "retry_wait" /\ pc["c2"] = "retry_wait"
    /\ cprov["c1"] = cprov["c2"]
    /\ wake_at["c1"] = 2 /\ wake_at["c2"] = 1
    /\ backoff_until[cprov["c1"]] = 1
    /\ successes["c1"] = 0 /\ successes["c2"] = 0

\* C38: the sweep never loses a still-retryable item: under every
\* interleaving with concurrent enqueues on the same provider,
\* an item the sweep popped and whose invocation raised a retryable error is
\* put back into the queue (its add_request is never rejected because the
\* queue has become full).
C38_RetryableItemRequeued ==
    [][(/\ dpc = "invoking" /\ dpc' = "loop"
        /\ derror' # derror \/ processed' = processed
        /\ processed' = processed
        /\ should_retry(retry_config, derror', 0)[1]) =>
            /\ Len(request_queues'[dprov]) = Len(request_queues[dprov]) + 1
            /\ request_queues'[dprov][Len(request_queues'[dprov])].func =
                  request_data.func]_vars

\* the sweep has popped and invoked an item, the invocation raised a quota
\* error, and the item is in neither the queue nor the sweep's loop: the
\* queue is full of what was enqueued meanwhile
C38_ItemLost ==
    /\ dpc = "loop" /\ dpopped = 1 /\ processed = 0
    /\ QuotaTerms \in derror.msg
    /\ Len(request_queues[dprov]) = QueueMaxSize
    /\ \A i \in 1..Len(request_queues[dprov]) :
          request_queues[dprov][i].func # request_data.func

\* C39: process_queued_requests changes only the queue of its provider:
\* whatever the calls it invokes do (a rate_limit or quota_exceeded failure
\* included), its steps leave backoff_until, the request history and the
\* rate-limit info of every provider, and the queues of the other providers,
\* unchanged; and it reads backoff_until once, before the first item: a
\* backoff that starts while it runs does not stop it.
C39_SweepChangesOnlyQueue ==
    [][(Drain \/ drainVars' # drainVars) =>
          /\ UNCHANGED <<backoff_until, request_history, rate_limits,
                         retry_config>>
          /\ \A p \in Providers \ {dprov'} :
                request_queues'[p] = request_queues[p]
          /\ dpc # "idle" => dpc' # "skipped"
          /\ (dpc = "loop" /\ processed < max_requests
              /\ Len(request_queues[dprov]) > 0) => dpc' = "pop"
          /\ (dpc = "pop" /\ Len(request_queues[dprov]) > 0) =>
                dpc' = "invoking"]_vars

\* the sweep has taken a second item out and invokes it while a backoff of
\* its provider is active, set by the quota failure of a call after the
\* sweep had started; the first item it invoked raised a quota error
C39_Witness ==
    /\ dpc = "invoking" /\ dpopped = 2
    /\ QuotaTerms \in derror.msg
    /\ backoff_until[dprov] > now
    /\ pc["c1"] = "retry_wait" /\ cprov["c1"] = dprov
    /\ backoff_until[dprov] = wake_at["c1"]

====
